---------------------------- MODULE Spec2Model ----------------------------
(***************************************************************************)
(* dumpSTR (trtools/dumpSTR/dumpSTR.py): call-level and locus-level        *)
(* filtering of tandem-repeat records, with the running per-sample and     *)
(* per-locus statistics tables.                                            *)
(*                                                                         *)
(* The model follows main()'s record loop.  Its positions (pc) are         *)
(*   start -> read -> call -> locus -> emit -> read ... -> finish -> done  *)
(* and "crashed" when an exception leaves main.                            *)
(***************************************************************************)
EXTENDS Integers, Sequences, FiniteSets, TLC

VARIABLES
    args,            \* the argparse namespace (the part the record loop reads)
    mem,             \* whether np.empty hands out recycled (dirty) blocks
    call_filters,    \* BuildCallFilters(args)
    locus_filters,   \* BuildLocusFilters(args)
    sample_info,     \* statistics table: counter name -> per-sample array
    loc_info,        \* statistics table: counter name -> integer
    input,           \* records the harmonizer has not yet returned
    record,          \* the record main currently holds
    record_counter,  \* main's record_counter
    locus_filtered,  \* result of ApplyLocusFilters for the held record
    output,          \* records given to outvcf.write_record, in order
    logs,            \* what WriteSampLog / WriteLocLog were given
    err,             \* the exception that left main, if any
    hist,            \* values on entry to the last step, for stating claims
    outvcf,          \* the output writer: "none", "open" or "closed"
    warnings,        \* the warnings common.WARNING was given
    rc,              \* main's return value, -1 while it runs
    pc

vars == <<args, mem, call_filters, locus_filters, sample_info, loc_info, input,
          record, record_counter, locus_filtered, output, logs, err, hist,
          outvcf, warnings, rc, pc>>

-----------------------------------------------------------------------------
(* Bounds of the model *)

NumSamples == 2
MaxRecords == 2
MaxCallFilters == 2
MaxLocusFilters == 3
MaxAlt == 2

Samples == 1..NumSamples

-----------------------------------------------------------------------------
(* Values *)

\* dumpSTR.py:545, -2147483648 (the smallest 32-bit integer)
_NOCALL_INT_FORMAT_VAL == -2147483647 - 1

\* A float is [nan, v]; NaN absorbs every sum and fails every comparison.
NaN == [nan |-> TRUE, v |-> 0]
F(x) == [nan |-> FALSE, v |-> x]
FAdd(a, b) == IF a.nan \/ b.nan THEN NaN ELSE F(a.v + b.v)

Max(S) == CHOOSE x \in S : \A y \in S : y <= x
Range(f) == {f[i] : i \in DOMAIN f}

Digits == <<"0", "1", "2", "3", "4", "5", "6", "7", "8", "9">>

RECURSIVE NatStr(_)
NatStr(n) == IF n < 10 THEN Digits[n + 1]
             ELSE NatStr(n \div 10) \o Digits[(n % 10) + 1]

\* '%g' % x for the integral metric values of the model (|x| < 10^6, where
\* %g prints no exponent and no fraction) and for not-a-number.
FmtG(x) == IF x.nan THEN "nan"
           ELSE IF x.v < 0 THEN "-" \o NatStr(-x.v) ELSE NatStr(x.v)

\* Assignment into a numpy array of fixed-width strings keeps the first
\* `width` characters.
Trunc(s, width) == IF Len(s) > width THEN SubSeq(s, 1, width) ELSE s


-----------------------------------------------------------------------------
(* Configuration: the filter lists main builds from args *)

\* BuildCallFilters: one row per `if args.<opt>` in source order; `name` is
\* the name the filter object is given there.
CallFilterTable == <<
    [opt |-> "hipstr_max_call_flank_indel",  name |-> "HipSTRCallFlankIndels"],
    [opt |-> "hipstr_max_call_stutter",      name |-> "HipSTRCallStutter"],
    [opt |-> "hipstr_min_supp_reads",        name |-> "HipSTRCallMinSuppReads"],
    [opt |-> "hipstr_min_call_DP",           name |-> "HipSTRCallMinDepth"],
    [opt |-> "hipstr_max_call_DP",           name |-> "HipSTRCallMaxDepth"],
    [opt |-> "hipstr_min_call_Q",            name |-> "HipSTRCallMinQ"],
    [opt |-> "hipstr_min_call_allele_bias",  name |-> "HipSTRCallMinAlleleBias"],
    [opt |-> "hipstr_min_call_strand_bias",  name |-> "HipSTRCallMinStrandBias"],
    [opt |-> "gangstr_min_call_DP",          name |-> "GangSTRCallMinDepth"],
    [opt |-> "gangstr_max_call_DP",          name |-> "GangSTRCallMaxDepth"],
    [opt |-> "gangstr_min_call_Q",           name |-> "GangSTRCallMinQ"],
    [opt |-> "gangstr_expansion_prob_het",   name |-> "GangSTRCallExpansionProbHet"],
    [opt |-> "gangstr_expansion_prob_hom",   name |-> "GangSTRCallExpansionProbHom"],
    [opt |-> "gangstr_expansion_prob_total", name |-> "GangSTRCallExpansionProbTotal"],
    [opt |-> "gangstr_filter_span_only",     name |-> "GangSTRCallSpanOnly"],
    [opt |-> "gangstr_filter_spanbound_only", name |-> "GangSTRCallSpanBoundOnly"],
    [opt |-> "gangstr_filter_badCI",         name |-> "GangSTRCallBadCI"],
    [opt |-> "advntr_min_call_DP",           name |-> "AdVNTRCallMinDepth"],
    [opt |-> "advntr_max_call_DP",           name |-> "AdVNTRCallMaxDepth"],
    [opt |-> "advntr_min_spanning",          name |-> "AdVNTRCallMinSpanning"],
    [opt |-> "advntr_min_flanking",          name |-> "AdVNTRCallMinFlanking"],
    [opt |-> "advntr_min_ML",                name |-> "AdVNTRCallMinML"],
    [opt |-> "eh_min_call_LC",               name |-> "EHCallMinDepth"],
    [opt |-> "eh_max_call_LC",               name |-> "EHCallMaxDepth"],
    [opt |-> "eh_min_ADFL",                  name |-> "EHCallMinADFL"],
    [opt |-> "eh_min_ADIR",                  name |-> "EHCallMinADFL"],
    [opt |-> "eh_min_ADSP",                  name |-> "EHCallMinADSP"],
    [opt |-> "popstr_min_call_DP",           name |-> "PopSTRMinCallDepth"],
    [opt |-> "popstr_max_call_DP",           name |-> "PopSTRMaxCallDepth"],
    [opt |-> "popstr_require_support",       name |-> "PopSTRCallRequireSupport"] >>

\* BuildLocusFilters: one row per `if args.<opt>` in source order; `name` is
\* the reason code filter_name() returns.
LocusFilterTable == <<
    [opt |-> "min_locus_callrate", name |-> "CALLRATE"],
    [opt |-> "min_locus_hwep",     name |-> "HWE"],
    [opt |-> "min_locus_het",      name |-> "HETLOW"],
    [opt |-> "max_locus_het",      name |-> "HETHIGH"],
    [opt |-> "filter_hrun",        name |-> "HRUN"],
    [opt |-> "filter_regions",     name |-> "FILTER0"] >>

BuildCallFilters(a) == SelectSeq(CallFilterTable, LAMBDA row : row.opt \in a.call_opts)

BuildLocusFilters(a) == SelectSeq(LocusFilterTable, LAMBDA row : row.opt \in a.locus_opts)

\* GetAllCallFilters: the names of the call filters, in list order.
GetAllCallFilters(cf) == [i \in 1..Len(cf) |-> cf[i].name]

Names(fs) == {fs[i].name : i \in 1..Len(fs)}

-----------------------------------------------------------------------------
(* Records *)

\* TRRecord.GetCalledSamples: a sample is called when its genotype has no
\* missing allele.
GetCalledSamples(rec) == [s \in Samples |-> \A i \in DOMAIN rec.gt[s] : rec.gt[s][i] # -1]

\* TRRecord.GetMaxPloidy
GetMaxPloidy(rec) == rec.ploidy

NumCalled(rec) == Cardinality({s \in Samples : GetCalledSamples(rec)[s]})

\* vcfrecord.set_format(field, values)
SetFormat(rec, field, kind, vals) ==
    [rec EXCEPT !.format =
        [f \in (DOMAIN rec.format) \cup {field} |->
            IF f = field THEN [kind |-> kind, vals |-> vals] ELSE rec.format[f]]]

-----------------------------------------------------------------------------
(* ApplyCallFilters (dumpSTR.py:548-717) *)

\* filt(record): the per-sample metric array of the i-th call filter, NaN
\* where the filter did not fire.  A filter is a function of the record, so
\* the array is carried by the record.
FiltOutput(rec, i) == rec.metric[i]

\* One pass of `for filt in call_filters` (lines 589-608).  acc is
\* [text, width, si]: all_filter_text, its dtype's width in characters and
\* sample_info.
CallFilterPass(acc, filt, filt_output, nocalls) ==
    LET nans == [s \in Samples |-> filt_output[s].nan]
    IN  IF \A s \in Samples : nans[s]
        THEN acc
        ELSE
        LET \* np.char.mod gives the width of the longest formatted value,
            \* np.char.add the sum of the widths of its operands
            modw == Max({Len(FmtG(filt_output[s])) : s \in Samples})
            fwidth == Len(filt.name) + 1 + modw
            filt_output_text == [s \in Samples |->
                IF nans[s] THEN "" ELSE filt.name \o "_" \o FmtG(filt_output[s])]
            not_first_filter == [s \in Samples |-> ~nans[s] /\ acc.text[s] # ""]
            with_comma == [s \in Samples |->
                IF not_first_filter[s]
                THEN Trunc(acc.text[s] \o ",", acc.width)
                ELSE acc.text[s]]
        IN  [text  |-> [s \in Samples |-> with_comma[s] \o filt_output_text[s]],
             width |-> acc.width + fwidth,
             si    |-> [acc.si EXCEPT ![filt.name] =
                          [s \in Samples |->
                              @[s] + (IF ~nans[s] /\ ~nocalls[s] THEN 1 ELSE 0)]]]

RECURSIVE CallFilterLoop(_, _, _, _, _)
CallFilterLoop(i, acc, cf, rec, nocalls) ==
    IF i > Len(cf) THEN acc
    ELSE CallFilterLoop(i + 1,
                        CallFilterPass(acc, cf[i], FiltOutput(rec, i), nocalls),
                        cf, rec, nocalls)

\* Lines 610-619: the NOCALL text, the PASS text.  empty6 is the content of
\* np.empty(n, 'U6').
\* FinalFilterText without line 616: the text of the filters that fired on an
\* uncalled sample stays in front of NOCALL.
FinalFilterText_KeepFired(acc, nocalls, empty6) ==
    LET t1 == IF \E s \in Samples : nocalls[s]
              THEN [s \in Samples |->
                      acc.text[s] \o (IF nocalls[s] THEN "NOCALL" ELSE empty6[s])]
              ELSE acc.text
    IN  [s \in Samples |-> IF t1[s] = "" THEN "PASS" ELSE t1[s]]

FinalFilterText(acc, nocalls, empty6) ==
    LET t1 == IF \E s \in Samples : nocalls[s]
              THEN [s \in Samples |->
                      (IF nocalls[s] THEN "" ELSE acc.text[s])
                      \o (IF nocalls[s] THEN "NOCALL" ELSE empty6[s])]
              ELSE acc.text
    IN  [s \in Samples |-> IF t1[s] = "" THEN "PASS" ELSE t1[s]]

\* Lines 623-629: record.format['DP'], else record.format['LC']; a KeyError
\* raised inside the first handler is not caught by the second one.
DepthField(rec) ==
    IF "DP" \in DOMAIN rec.format THEN [found |-> TRUE, vals |-> rec.format["DP"].vals]
    ELSE IF "LC" \in DOMAIN rec.format THEN [found |-> TRUE, vals |-> rec.format["LC"].vals]
    ELSE [found |-> FALSE, vals |-> [s \in Samples |-> 0]]

\* Lines 641-645
\* AccumulateDepth over every sample with a positive depth, PASS or not.
AccumulateDepth_AllSamples(totaldp, extant_calls, dp_vals) ==
    [s \in Samples |->
        IF extant_calls[s] /\ dp_vals[s] = _NOCALL_INT_FORMAT_VAL THEN NaN
        ELSE IF dp_vals[s] > 0 THEN FAdd(totaldp[s], F(dp_vals[s]))
        ELSE totaldp[s]]

\* AccumulateDepth without lines 646-647: a missing depth leaves the total.
AccumulateDepth_SkipMissing(totaldp, extant_calls, dp_vals) ==
    [s \in Samples |->
        IF extant_calls[s] /\ dp_vals[s] > 0 THEN FAdd(totaldp[s], F(dp_vals[s]))
        ELSE totaldp[s]]

AccumulateDepth(totaldp, extant_calls, dp_vals) ==
    [s \in Samples |->
        IF extant_calls[s] /\ dp_vals[s] = _NOCALL_INT_FORMAT_VAL THEN NaN
        ELSE IF extant_calls[s] /\ dp_vals[s] > 0 THEN FAdd(totaldp[s], F(dp_vals[s]))
        ELSE totaldp[s]]

\* Lines 670-676: the missing value of a field's array type.
\* KnownKinds with the else branch of line 677 never taken.
KnownKinds_Any == {"U", "f", "i", "u", "b", "S", "O"}

KnownKinds == {"U", "f", "i"}

\* MaskedValue with 0 for an integer field.
MaskedValue_IntZero(kind) == IF kind = "U" THEN "."
                             ELSE IF kind = "f" THEN NaN
                             ELSE 0

MaskedValue(kind) == IF kind = "U" THEN "."
                     ELSE IF kind = "f" THEN NaN
                     ELSE _NOCALL_INT_FORMAT_VAL

\* MaskRecord with every sample masked.
MaskRecord_AllSamples(rec, filtered_samples) ==
    [rec EXCEPT
      !.gt = [s \in Samples |-> [i \in 1..GetMaxPloidy(rec) |-> -1]],
      !.format = [f \in DOMAIN rec.format |->
                IF f \in {"GT", "FILTER"} THEN rec.format[f]
                ELSE [kind |-> IF rec.format[f].kind = "U" THEN "S"
                               ELSE rec.format[f].kind,
                      vals |-> [s \in Samples |-> MaskedValue(rec.format[f].kind)]]]]

\* Lines 655-680: the genotypes and every other format field of the
\* filtered samples.
MaskRecord(rec, filtered_samples) ==
    LET ploidy == GetMaxPloidy(rec)
    IN  [rec EXCEPT
          !.gt = [s \in Samples |->
                    IF filtered_samples[s] THEN [i \in 1..ploidy |-> -1] ELSE @[s]],
          !.format = [f \in DOMAIN rec.format |->
                    IF f \in {"GT", "FILTER"} THEN rec.format[f]
                    ELSE [kind |-> IF rec.format[f].kind = "U" THEN "S"
                                   ELSE rec.format[f].kind,
                          vals |-> [s \in Samples |->
                                      IF filtered_samples[s]
                                      THEN MaskedValue(rec.format[f].kind)
                                      ELSE rec.format[f].vals[s]]]]]

\* The whole function.  empty4 and empty6 are the contents of the two
\* np.empty arrays.  The result says how the call ended: "return", or
\* "raise" with the exception; rec and si are the record and sample_info as
\* the call left them (both are updated in place).
\* sample_names is main's invcf.samples, a Python list: indexing it with the
\* boolean array on line 639 raises TypeError before the message is built.
ApplyCallFilters(rec, cf, si, empty4, empty6) ==
    LET nocalls == [s \in Samples |-> ~GetCalledSamples(rec)[s]]
        acc == CallFilterLoop(1, [text |-> empty4, width |-> 4, si |-> si],
                              cf, rec, nocalls)
        all_filter_text == FinalFilterText(acc, nocalls, empty6)
        rec1 == SetFormat(rec, "FILTER", "S", all_filter_text)
        extant_calls == [s \in Samples |-> all_filter_text[s] = "PASS"]
        si1 == [acc.si EXCEPT !["numcalls"] =
                  [s \in Samples |-> @[s] + (IF extant_calls[s] THEN 1 ELSE 0)]]
        dp == DepthField(rec1)
        negative_dp_called_samples == [s \in Samples |->
            dp.vals[s] < 0 /\ dp.vals[s] # _NOCALL_INT_FORMAT_VAL /\ extant_calls[s]]
        si2 == [si1 EXCEPT !["totaldp"] = AccumulateDepth(@, extant_calls, dp.vals)]
        filtered_samples == [s \in Samples |->
            all_filter_text[s] # "PASS" /\ all_filter_text[s] # "NOCALL"]
        unknown == {f \in (DOMAIN rec1.format) \ {"GT", "FILTER"} :
                      rec1.format[f].kind \notin KnownKinds}
    IN  IF ~dp.found
        THEN [end |-> "raise", exc |-> [type |-> "KeyError", arg |-> "LC"],
              rec |-> rec1, si |-> si1]
        ELSE IF \E s \in Samples : negative_dp_called_samples[s]
        THEN [end |-> "raise", exc |-> [type |-> "TypeError", arg |-> "sample_names"],
              rec |-> rec1, si |-> si1]
        ELSE IF ~\E s \in Samples : filtered_samples[s]
        THEN [end |-> "return", exc |-> [type |-> "", arg |-> ""],
              rec |-> rec1, si |-> si2]
        ELSE IF unknown # {}
        THEN [end |-> "raise",
              exc |-> [type |-> "ValueError", arg |-> CHOOSE f \in unknown : TRUE],
              rec |-> [rec1 EXCEPT !.gt = MaskRecord(rec1, filtered_samples).gt],
              si  |-> si2]
        ELSE [end |-> "return", exc |-> [type |-> "", arg |-> ""],
              rec |-> MaskRecord(rec1, filtered_samples), si |-> si2]

-----------------------------------------------------------------------------
(* ApplyLocusFilters (dumpSTR.py:852-908) *)

\* filt(record) is not None, for the i-th locus filter.
LocusFires(rec, i) == rec.locus[i]

\* Lines 885-889 and 895-899: the record's FILTER after one more reason.
\* AddReason without the += branch: the last reason replaces the others.
AddReason_Overwrite(cur, filtered, drop_filtered, reason) ==
    IF drop_filtered THEN cur ELSE reason

AddReason(cur, filtered, drop_filtered, reason) ==
    IF drop_filtered THEN cur
    ELSE IF ~filtered THEN reason
    ELSE cur \o ";" \o reason

Bump(li, key, by) == [li EXCEPT ![key] = @ + by]

\* LocusFilterLoop leaving the loop at the first filter that fires.
LocusFilterLoop_StopAtFirst(i, acc, lf, rec, drop_filtered) ==
    LET fired == {j \in i..Len(lf) : LocusFires(rec, j)}
    IN  IF fired = {} THEN acc
        ELSE LET j == CHOOSE k \in fired : \A m \in fired : k <= m
             IN  [filtered |-> TRUE,
                  FILTER   |-> AddReason(acc.FILTER, acc.filtered, drop_filtered, lf[j].name),
                  li       |-> Bump(acc.li, lf[j].name, 1)]

\* Lines 881-890.  acc is [filtered, FILTER, li].
RECURSIVE LocusFilterLoop(_, _, _, _, _)
LocusFilterLoop(i, acc, lf, rec, drop_filtered) ==
    IF i > Len(lf) THEN acc
    ELSE IF ~LocusFires(rec, i)
    THEN LocusFilterLoop(i + 1, acc, lf, rec, drop_filtered)
    ELSE LocusFilterLoop(i + 1,
            [filtered |-> TRUE,
             FILTER   |-> AddReason(acc.FILTER, acc.filtered, drop_filtered, lf[i].name),
             li       |-> Bump(acc.li, lf[i].name, 1)],
            lf, rec, drop_filtered)

\* ApplyLocusFilters with the no-call test skipped once a filter has fired.
ApplyLocusFilters_ElseNoCalls(rec, lf, li, drop_filtered) ==
    LET a == LocusFilterLoop(1, [filtered |-> FALSE, FILTER |-> rec.FILTER, li |-> li],
                             lf, rec, drop_filtered)
        n_samples_called == NumCalled(rec)
        b == IF n_samples_called = 0 /\ ~a.filtered
             THEN [filtered |-> TRUE,
                   FILTER   |-> AddReason(a.FILTER, a.filtered, drop_filtered,
                                          "NO_CALLS_REMAINING"),
                   li       |-> Bump(a.li, "NO_CALLS_REMAINING", 1)]
             ELSE a
    IN  IF ~b.filtered
        THEN [filtered |-> FALSE,
              FILTER   |-> IF drop_filtered THEN b.FILTER ELSE "PASS",
              li       |-> Bump(Bump(b.li, "PASS", 1), "totalcalls", n_samples_called)]
        ELSE b

\* ApplyLocusFilters with lines 905-906 outside the test of line 902: a
\* filtered record is counted in PASS and totalcalls too.
ApplyLocusFilters_PassAlways(rec, lf, li, drop_filtered) ==
    LET a == LocusFilterLoop(1, [filtered |-> FALSE, FILTER |-> rec.FILTER, li |-> li],
                             lf, rec, drop_filtered)
        n_samples_called == NumCalled(rec)
        b == IF n_samples_called = 0
             THEN [filtered |-> TRUE,
                   FILTER   |-> AddReason(a.FILTER, a.filtered, drop_filtered,
                                          "NO_CALLS_REMAINING"),
                   li       |-> Bump(a.li, "NO_CALLS_REMAINING", 1)]
             ELSE a
    IN  [filtered |-> b.filtered,
         FILTER   |-> IF drop_filtered \/ b.filtered THEN b.FILTER ELSE "PASS",
         li       |-> Bump(Bump(b.li, "PASS", 1), "totalcalls", n_samples_called)]

\* ApplyLocusFilters counting one call per passing record in totalcalls.
ApplyLocusFilters_CountRecords(rec, lf, li, drop_filtered) ==
    LET a == LocusFilterLoop(1, [filtered |-> FALSE, FILTER |-> rec.FILTER, li |-> li],
                             lf, rec, drop_filtered)
        n_samples_called == NumCalled(rec)
        b == IF n_samples_called = 0
             THEN [filtered |-> TRUE,
                   FILTER   |-> AddReason(a.FILTER, a.filtered, drop_filtered,
                                          "NO_CALLS_REMAINING"),
                   li       |-> Bump(a.li, "NO_CALLS_REMAINING", 1)]
             ELSE a
    IN  IF ~b.filtered
        THEN [filtered |-> FALSE,
              FILTER   |-> IF drop_filtered THEN b.FILTER ELSE "PASS",
              li       |-> Bump(Bump(b.li, "PASS", 1), "totalcalls", 1)]
        ELSE b

\* The whole function: [filtered, FILTER, li] are its result, the record's
\* FILTER and loc_info when it returns.
ApplyLocusFilters(rec, lf, li, drop_filtered) ==
    LET a == LocusFilterLoop(1, [filtered |-> FALSE, FILTER |-> rec.FILTER, li |-> li],
                             lf, rec, drop_filtered)
        n_samples_called == NumCalled(rec)
        b == IF n_samples_called = 0
             THEN [filtered |-> TRUE,
                   FILTER   |-> AddReason(a.FILTER, a.filtered, drop_filtered,
                                          "NO_CALLS_REMAINING"),
                   li       |-> Bump(a.li, "NO_CALLS_REMAINING", 1)]
             ELSE a
    IN  IF ~b.filtered
        THEN [filtered |-> FALSE,
              FILTER   |-> IF drop_filtered THEN b.FILTER ELSE "PASS",
              li       |-> Bump(Bump(b.li, "PASS", 1), "totalcalls", n_samples_called)]
        ELSE b

-----------------------------------------------------------------------------
(* The configuration checks (dumpSTR.py:50-440) *)

\* The tools' call-level options, as CheckFilters groups them (lines 370-433).
ToolOpts(tool) ==
    CASE tool = "hipstr"  -> {"hipstr_max_call_flank_indel", "hipstr_max_call_stutter",
                              "hipstr_min_supp_reads", "hipstr_min_call_DP",
                              "hipstr_max_call_DP", "hipstr_min_call_Q",
                              "hipstr_min_call_allele_bias",
                              "hipstr_min_call_strand_bias"}
      [] tool = "gangstr" -> {"gangstr_min_call_DP", "gangstr_max_call_DP",
                              "gangstr_min_call_Q", "gangstr_expansion_prob_het",
                              "gangstr_expansion_prob_hom",
                              "gangstr_expansion_prob_total",
                              "gangstr_filter_span_only",
                              "gangstr_filter_spanbound_only",
                              "gangstr_filter_badCI", "gangstr_readlen"}
      [] tool = "advntr"  -> {"advntr_min_call_DP", "advntr_max_call_DP",
                              "advntr_min_spanning", "advntr_min_flanking",
                              "advntr_min_ML"}
      [] tool = "eh"      -> {"eh_min_ADFL", "eh_min_ADIR", "eh_min_ADSP",
                              "eh_min_call_LC", "eh_max_call_LC"}
      [] tool = "popstr"  -> {"popstr_min_call_DP", "popstr_max_call_DP",
                              "popstr_require_support"}

Tools == <<"hipstr", "gangstr", "advntr", "eh", "popstr">>

\* One row per test of a Check<Tool>Filters function, in source order.
\* A row with `fields` is `if args.<opt> is not None:` with its range test
\* and its assert; a row with `min` is the test of a max option against its
\* min option.
Opt(o, fs) == [kind |-> "opt", opt |-> o, fields |-> fs]
Pair(lo, hi) == [kind |-> "pair", min |-> lo, max |-> hi]

CheckSteps(tool) ==
    CASE tool = "hipstr" ->
           << Opt("hipstr_max_call_flank_indel", {"DP", "DFLANKINDEL"}),
              Opt("hipstr_max_call_stutter", {"DP", "DSTUTTER"}),
              Opt("hipstr_min_supp_reads", {"ALLREADS", "GB"}),
              Opt("hipstr_min_call_DP", {"DP"}),
              Opt("hipstr_max_call_DP", {"DP"}),
              Pair("hipstr_min_call_DP", "hipstr_max_call_DP"),
              Opt("hipstr_min_call_Q", {"Q"}) >>
      [] tool = "gangstr" ->
           << Opt("gangstr_min_call_DP", {"DP"}),
              Opt("gangstr_max_call_DP", {"DP"}),
              Pair("gangstr_min_call_DP", "gangstr_max_call_DP"),
              Opt("gangstr_min_call_Q", {"Q"}),
              Opt("gangstr_expansion_prob_het", {"QEXP"}),
              Opt("gangstr_expansion_prob_hom", {"QEXP"}),
              Opt("gangstr_expansion_prob_total", {"QEXP"}) >>
      [] tool = "advntr" ->
           << Opt("advntr_min_call_DP", {"DP"}),
              Opt("advntr_max_call_DP", {"DP"}),
              Pair("advntr_min_call_DP", "advntr_max_call_DP"),
              Opt("advntr_min_spanning", {"SR"}),
              Opt("advntr_min_flanking", {"FR"}),
              Opt("advntr_min_ML", {"ML"}) >>
      [] tool = "eh" ->
           << Opt("eh_min_ADFL", {"ADFL"}),
              Opt("eh_min_ADIR", {"ADIR"}),
              Opt("eh_min_ADSP", {"ADSP"}),
              Opt("eh_min_call_LC", {"LC"}),
              Opt("eh_max_call_LC", {"LC"}),
              Pair("eh_min_call_LC", "eh_max_call_LC") >>
      [] tool = "popstr" ->
           << Opt("popstr_min_call_DP", {"DP"}),
              Opt("popstr_max_call_DP", {"DP"}),
              Pair("popstr_min_call_DP", "popstr_max_call_DP"),
              Opt("popstr_require_support", {"AD"}) >>

\* Check<Tool>Filters (lines 96-342): "True", "False", or "AssertionError"
\* when an assert on format_fields fails.  a.bad holds the options whose
\* value is out of range, a.crossed the max options set below their min.
RECURSIVE CheckToolSteps(_, _, _)
CheckToolSteps(steps, i, a) ==
    IF i > Len(steps) THEN "True"
    ELSE LET st == steps[i]
         IN  IF st.kind = "opt"
             THEN IF st.opt \notin a.call_opts THEN CheckToolSteps(steps, i + 1, a)
                  ELSE IF st.opt \in a.bad THEN "False"
                  ELSE IF ~(st.fields \subseteq a.format_fields) THEN "AssertionError"
                  ELSE CheckToolSteps(steps, i + 1, a)
             ELSE IF {st.min, st.max} \subseteq a.call_opts /\ st.max \in a.crossed
                  THEN "False"
                  ELSE CheckToolSteps(steps, i + 1, a)

\* CheckLocusFilters (lines 50-94).
CheckLocusFilters(a) ==
    /\ {"min_locus_hwep", "min_locus_het", "max_locus_het"}
           \cap a.locus_opts \cap a.bad = {}
    /\ ~({"min_locus_het", "max_locus_het"} \subseteq a.locus_opts
           /\ "max_locus_het" \in a.crossed)
    /\ ~("filter_regions" \in a.locus_opts /\ "filter_regions_names" \in a.bad)

\* CheckFilters (lines 344-440): the tools in source order; a tool whose
\* options are used on another tool's VCF is rejected.
RECURSIVE CheckToolGroups(_, _)
CheckToolGroups(t, a) ==
    IF t > Len(Tools) THEN "True"
    ELSE IF ToolOpts(Tools[t]) \cap a.call_opts = {} THEN CheckToolGroups(t + 1, a)
    ELSE IF a.vcftype # Tools[t] THEN "False"
    ELSE LET r == CheckToolSteps(CheckSteps(Tools[t]), 1, a)
         IN  IF r = "True" THEN CheckToolGroups(t + 1, a) ELSE r

CheckFilters(a) ==
    IF ~CheckLocusFilters(a) THEN "False" ELSE CheckToolGroups(1, a)

-----------------------------------------------------------------------------
(* The header checks of main (dumpSTR.py:1032-1140) *)

\* The annotations main declares, in source order, with the Type and Number
\* it expects; FILTER is the FORMAT field, the others are INFO fields.  Only
\* the INFO fields have the test of the description (lines 1072, 1088, 1104,
\* 1120, 1136).
HeaderTable == <<
    [id |-> "FILTER", Type |-> "String",  Number |-> "1", described |-> FALSE],
    [id |-> "AC",     Type |-> "Integer", Number |-> "A", described |-> TRUE],
    [id |-> "REFAC",  Type |-> "Integer", Number |-> "1", described |-> TRUE],
    [id |-> "HET",    Type |-> "Float",   Number |-> "1", described |-> TRUE],
    [id |-> "HWEP",   Type |-> "Float",   Number |-> "1", described |-> TRUE],
    [id |-> "HRUN",   Type |-> "Integer", Number |-> "1", described |-> TRUE] >>

HeaderIds == {HeaderTable[i].id : i \in 1..Len(HeaderTable)}

\* a.header[id] is the declaration of id in the input header, if there is
\* one; "dumpSTR" stands for the description main would give.
Declared(a, id) == a.header[id].declared

FieldIssue(a, row) ==
    /\ Declared(a, row.id)
    /\ (a.header[row.id].Type # row.Type \/ a.header[row.id].Number # row.Number)

Overwritten(a, row) ==
    /\ Declared(a, row.id)
    /\ ~FieldIssue(a, row)
    /\ row.described
    /\ a.header[row.id].Description # "dumpSTR"

field_issues(a) == \E i \in 1..Len(HeaderTable) : FieldIssue(a, HeaderTable[i])

HeaderWarnings(a) ==
    {"issue:" \o HeaderTable[i].id : i \in {j \in 1..Len(HeaderTable) : FieldIssue(a, HeaderTable[j])}}
    \cup
    {"overwrite:" \o HeaderTable[i].id : i \in {j \in 1..Len(HeaderTable) : Overwritten(a, HeaderTable[j])}}

-----------------------------------------------------------------------------
(* The log writers (dumpSTR.py:442-523) *)

RECURSIVE LocLogRows(_, _)
LocLogRows(keys, val) ==
    IF keys = <<>> THEN <<>>
    ELSE IF Head(keys) = "totalcalls" THEN LocLogRows(Tail(keys), val)
    ELSE <<[label |-> "FILTER:" \o Head(keys), value |-> val[Head(keys)]] >>
         \o LocLogRows(Tail(keys), val)

\* WriteLocLog without line 461: totalcalls is listed with the others.
WriteLocLog_KeepTotal(li) ==
    <<[label |-> "MeanSamplesPerPassingSTR",
       value |-> IF li.val["PASS"] = 0 THEN <<0, 1>>
                 ELSE <<li.val["totalcalls"], li.val["PASS"]>>] >>
    \o [i \in 1..Len(li.keys) |->
          [label |-> "FILTER:" \o li.keys[i], value |-> li.val[li.keys[i]]]]

\* WriteLocLog: the rows of the file.  The first one is the mean number of
\* samples per passing locus, kept as the two integers it divides.
WriteLocLog(li) ==
    <<[label |-> "MeanSamplesPerPassingSTR",
       value |-> IF li.val["PASS"] = 0 THEN <<0, 1>>
                 ELSE <<li.val["totalcalls"], li.val["PASS"]>>] >>
    \o LocLogRows(li.keys, li.val)

-----------------------------------------------------------------------------
(* main (dumpSTR.py:985-1295): set-up of the tables and the record loop *)

NoRecord == [pos |-> 0]
NoErr == [type |-> "", arg |-> ""]

\* collections.OrderedDict: a key assigned again keeps its first position.
InsertKey(keys, k) == IF k \in Range(keys) THEN keys ELSE Append(keys, k)

RECURSIVE InsertKeys(_, _)
InsertKeys(keys, ks) ==
    IF ks = <<>> THEN keys ELSE InsertKeys(InsertKey(keys, Head(ks)), Tail(ks))

ZeroInts == [s \in Samples |-> 0]
ZeroFloats == [s \in Samples |-> F(0)]

\* Lines 1180-1188: sample_info, as [keys, val].
NewSampleInfo(cf) ==
    [keys |-> InsertKeys(<<"numcalls", "totaldp">>, GetAllCallFilters(cf)),
     val  |-> [k \in {"numcalls", "totaldp"} \cup Names(cf) |->
                 IF k = "totaldp" THEN ZeroFloats ELSE ZeroInts]]

\* Lines 1193-1197: loc_info, as [keys, val].
NewLocInfo(lf) ==
    [keys |-> InsertKeys(<<"totalcalls", "PASS", "NO_CALLS_REMAINING">>,
                         [i \in 1..Len(lf) |-> lf[i].name]),
     val  |-> [k \in {"totalcalls", "PASS", "NO_CALLS_REMAINING"} \cup Names(lf) |-> 0]]

\* TRRecord.GetAlleleCounts(index=True) over the called samples, for allele a.
AlleleCount(rec, a) ==
    LET called == {s \in Samples : GetCalledSamples(rec)[s]}
        hits == {<<s, i>> \in called \X (1..rec.ploidy) : rec.gt[s][i] = a}
    IN  Cardinality(hits)

\* Annotate with the branch of line 1244 taken for every record.
Annotate_AlwaysMetrics(rec) ==
    [rec EXCEPT !.INFO =
        [HET   |-> "GetHeterozygosity",
         HWEP  |-> "GetHardyWeinbergBinomialTest",
         AC    |-> IF rec.nalt = 0 THEN <<0>>
                   ELSE [a \in 1..rec.nalt |-> AlleleCount(rec, a)],
         REFAC |-> AlleleCount(rec, 0),
         HRUN  |-> "GetHomopolymerRun"]]

\* Annotate with the loop of lines 1251-1253 left out of AC: an allele that
\* no called sample carries has no entry.
Annotate_ObservedOnly(rec) ==
    [rec EXCEPT !.INFO =
        [HET   |-> IF NumCalled(rec) > 0 THEN "GetHeterozygosity" ELSE "-1",
         HWEP  |-> IF NumCalled(rec) > 0 THEN "GetHardyWeinbergBinomialTest" ELSE "-1",
         AC    |-> IF rec.nalt = 0 THEN <<0>>
                   ELSE SelectSeq([a \in 1..rec.nalt |-> AlleleCount(rec, a)],
                                  LAMBDA n : NumCalled(rec) = 0 \/ n > 0),
         REFAC |-> AlleleCount(rec, 0),
         HRUN  |-> "GetHomopolymerRun"]]

\* Lines 1238-1267: the INFO fields main recomputes before writing.
Annotate(rec) ==
    LET n_alt == rec.nalt
        info == IF NumCalled(rec) > 0
                THEN [HET   |-> "GetHeterozygosity",
                      HWEP  |-> "GetHardyWeinbergBinomialTest",
                      AC    |-> IF n_alt = 0 THEN <<0>>
                                ELSE [a \in 1..n_alt |-> AlleleCount(rec, a)],
                      REFAC |-> AlleleCount(rec, 0),
                      HRUN  |-> "GetHomopolymerRun"]
                ELSE [HET   |-> "-1",
                      HWEP  |-> "-1",
                      AC    |-> IF n_alt = 0 THEN <<0>> ELSE [a \in 1..n_alt |-> 0],
                      REFAC |-> 0,
                      HRUN  |-> "GetHomopolymerRun"]
    IN  [rec EXCEPT !.INFO = info]

\* What np.empty can hand out: zeroed memory, or a recycled block with the
\* strings a previous array of that size left in it.
EmptyU4 == IF mem = "clean" THEN {""} ELSE {"", "PASS", "0.25"}
EmptyU6 == IF mem = "clean" THEN {""} ELSE {"", "NOCALL"}

\* CheckConfig without the return: main goes on whatever CheckFilters says.
CheckConfig_GoOn ==
    /\ pc = "check"
    /\ pc' = "header"
    /\ UNCHANGED <<args, mem, call_filters, locus_filters, sample_info, loc_info,
                   input, record, record_counter, locus_filtered, output, logs,
                   err, hist, outvcf, warnings, rc>>

\* Line 1030: if not CheckFilters(format_fields, args, vcftype): return 1
CheckConfig ==
    /\ pc = "check"
    /\ LET r == CheckFilters(args)
       IN  /\ pc' = CASE r = "True" -> "header"
                      [] r = "False" -> "done"
                      [] OTHER -> "crashed"
           /\ rc' = IF r = "False" THEN 1 ELSE rc
           /\ err' = IF r = "AssertionError"
                     THEN [type |-> "AssertionError", arg |-> ""] ELSE err
           /\ warnings' = IF r = "False" THEN warnings \cup {"config"} ELSE warnings
    /\ UNCHANGED <<args, mem, call_filters, locus_filters, sample_info, loc_info,
                   input, record, record_counter, locus_filtered, output, logs,
                   hist, outvcf>>

\* Lines 1032-1140: the declarations of the annotations main writes.
CheckHeader ==
    /\ pc = "header"
    /\ warnings' = warnings \cup HeaderWarnings(args)
    /\ pc' = IF field_issues(args) THEN "done" ELSE "start"
    /\ rc' = IF field_issues(args) THEN 1 ELSE rc
    /\ UNCHANGED <<args, mem, call_filters, locus_filters, sample_info, loc_info,
                   input, record, record_counter, locus_filtered, output, logs,
                   err, hist, outvcf>>

\* Lines 1142-1197
Setup ==
    /\ pc = "start"
    /\ call_filters' = BuildCallFilters(args)
    /\ locus_filters' = BuildLocusFilters(args)
    /\ sample_info' = NewSampleInfo(BuildCallFilters(args))
    /\ loc_info' = NewLocInfo(BuildLocusFilters(args))
    /\ outvcf' = "open"
    /\ record_counter' = 0
    /\ pc' = "read"
    /\ UNCHANGED <<args, mem, input, record, locus_filtered, output, logs, err, hist,
                   warnings, rc>>

\* ReadRecord leaving the loop when record_counter reaches num_records.
ReadRecord_StopEarly ==
    /\ pc = "read"
    /\ IF input = <<>>
       THEN /\ pc' = "finish"
            /\ UNCHANGED <<input, record, record_counter, hist>>
       ELSE /\ record' = Head(input)
            /\ input' = Tail(input)
            /\ record_counter' = record_counter + 1
            /\ hist' = [hist EXCEPT !.entry = Head(input)]
            /\ pc' = IF args.limited /\ record_counter + 1 >= args.num_records
                     THEN "finish" ELSE "call"
    /\ UNCHANGED <<args, mem, warnings, outvcf, rc, call_filters, locus_filters,
                   sample_info, loc_info, locus_filtered, output, logs, err>>

\* Lines 1204-1218: next(harmonizer), the record limit.
ReadRecord ==
    /\ pc = "read"
    /\ IF input = <<>>
       THEN /\ pc' = "finish"
            /\ UNCHANGED <<input, record, record_counter, hist>>
       ELSE /\ record' = Head(input)
            /\ input' = Tail(input)
            /\ record_counter' = record_counter + 1
            /\ hist' = [hist EXCEPT !.entry = Head(input)]
            /\ pc' = IF args.limited /\ record_counter + 1 > args.num_records
                     THEN "finish" ELSE "call"
    /\ UNCHANGED <<args, mem, warnings, outvcf, rc, call_filters, locus_filters, sample_info, loc_info,
                   locus_filtered, output, logs, err>>

\* CallFilterStep with sample_info put back as it was when the call raises.
CallFilterStep_RollBack ==
    /\ pc = "call"
    /\ \E e4 \in EmptyU4, e6 \in EmptyU6 :
         LET r == ApplyCallFilters(record, call_filters, sample_info.val,
                                   [s \in Samples |-> e4], [s \in Samples |-> e6])
         IN  /\ record' = r.rec
             /\ sample_info' = IF r.end = "return"
                               THEN [sample_info EXCEPT !.val = r.si] ELSE sample_info
             /\ err' = r.exc
             /\ pc' = IF r.end = "return" THEN "locus" ELSE "crashed"
             /\ hist' = [hist EXCEPT !.si = sample_info.val]
    /\ UNCHANGED <<args, mem, warnings, outvcf, rc, call_filters, locus_filters,
                   loc_info, input, record_counter, locus_filtered, output, logs>>

\* Line 1221
CallFilterStep ==
    /\ pc = "call"
    /\ \E e4 \in EmptyU4, e6 \in EmptyU6 :
         LET r == ApplyCallFilters(record, call_filters, sample_info.val,
                                   [s \in Samples |-> e4], [s \in Samples |-> e6])
         IN  /\ record' = r.rec
             /\ sample_info' = [sample_info EXCEPT !.val = r.si]
             /\ err' = r.exc
             /\ pc' = IF r.end = "return" THEN "locus" ELSE "crashed"
             /\ hist' = [hist EXCEPT !.si = sample_info.val]
    /\ UNCHANGED <<args, mem, warnings, outvcf, rc, call_filters, locus_filters, loc_info, input,
                   record_counter, locus_filtered, output, logs>>

\* Line 1224
LocusFilterStep ==
    /\ pc = "locus"
    /\ LET r == ApplyLocusFilters(record, locus_filters, loc_info.val, args.drop_filtered)
       IN  /\ record' = [record EXCEPT !.FILTER = r.FILTER]
           /\ loc_info' = [loc_info EXCEPT !.val = r.li]
           /\ locus_filtered' = r.filtered
           /\ hist' = [hist EXCEPT !.li = loc_info.val, !.cf_rec = record]
    /\ pc' = "emit"
    /\ UNCHANGED <<args, mem, warnings, outvcf, rc, call_filters, locus_filters, sample_info, input,
                   record_counter, output, logs, err>>

\* EmitOrDrop without the test of args.drop_filtered.
EmitOrDrop_DropAnyFiltered ==
    /\ pc = "emit"
    /\ IF locus_filtered
       THEN UNCHANGED <<record, output>>
       ELSE /\ record' = Annotate(record)
            /\ output' = Append(output, Annotate(record))
    /\ pc' = "read"
    /\ UNCHANGED <<args, mem, warnings, outvcf, rc, call_filters, locus_filters,
                   sample_info, loc_info, input, record_counter, locus_filtered,
                   logs, err, hist>>

\* EmitOrDrop with the record put in front of the ones already written.
EmitOrDrop_WriteFirst ==
    /\ pc = "emit"
    /\ IF args.drop_filtered /\ locus_filtered
       THEN UNCHANGED <<record, output>>
       ELSE /\ record' = Annotate(record)
            /\ output' = <<Annotate(record)>> \o output
    /\ pc' = "read"
    /\ UNCHANGED <<args, mem, warnings, outvcf, rc, call_filters, locus_filters,
                   sample_info, loc_info, input, record_counter, locus_filtered,
                   logs, err, hist>>

\* Lines 1226-1276: drop the record, or annotate and write it.
EmitOrDrop ==
    /\ pc = "emit"
    /\ IF args.drop_filtered /\ locus_filtered
       THEN UNCHANGED <<record, output>>
       ELSE /\ record' = Annotate(record)
            /\ output' = Append(output, Annotate(record))
    /\ pc' = "read"
    /\ UNCHANGED <<args, mem, warnings, outvcf, rc, call_filters, locus_filters, sample_info, loc_info,
                   input, record_counter, locus_filtered, logs, err, hist>>

\* Lines 1278-1295: close the files, write the two logs.
Finish ==
    /\ pc = "finish"
    /\ outvcf' = "closed"
    /\ logs' = [written |-> TRUE, samplog |-> sample_info,
                loclog |-> WriteLocLog(loc_info)]
    /\ rc' = 0
    /\ pc' = "done"
    /\ UNCHANGED <<args, mem, warnings, call_filters, locus_filters, sample_info, loc_info,
                   input, record, record_counter, locus_filtered, output, err, hist>>

Next ==
    \/ CheckConfig
    \/ CheckHeader
    \/ Setup
    \/ ReadRecord
    \/ CallFilterStep
    \/ LocusFilterStep
    \/ EmitOrDrop
    \/ Finish

-----------------------------------------------------------------------------
(* Initial states: a configuration and an input stream *)

NoInfo == [HET |-> ".", HWEP |-> ".", AC |-> <<>>, REFAC |-> 0, HRUN |-> "."]

Missing == <<-1, -1>>
Het == <<0, 1>>

\* The format fields of a record, by layout: which depth field it has and
\* which other fields (Q is a float field, GB a string field, PS a field
\* whose array is of unsigned integers).
FormatOf(layout, dp) ==
    CASE layout = "DP"   -> ("DP" :> [kind |-> "i", vals |-> dp])
      [] layout = "LC"   -> ("LC" :> [kind |-> "i", vals |-> dp])
      [] layout = "none" -> ("Q" :> [kind |-> "f", vals |-> [s \in Samples |-> F(1)]])
      [] layout = "full" -> ("DP" :> [kind |-> "i", vals |-> dp])
                            @@ ("Q" :> [kind |-> "f", vals |-> [s \in Samples |-> F(1)]])
                            @@ ("GB" :> [kind |-> "U", vals |-> [s \in Samples |-> "0|1"]])
      [] layout = "both" -> ("DP" :> [kind |-> "i", vals |-> dp])
                            @@ ("LC" :> [kind |-> "i", vals |-> [s \in Samples |-> 7]])
      [] layout = "odd"  -> ("DP" :> [kind |-> "i", vals |-> dp])
                            @@ ("PS" :> [kind |-> "u", vals |-> [s \in Samples |-> 3]])

MkRecord(gt, dp, metric, locus, layout, filter) ==
    [pos |-> 0, chrom |-> "chr1", ploidy |-> 2, nalt |-> 1,
     gt |-> gt, format |-> FormatOf(layout, dp), FILTER |-> filter,
     INFO |-> NoInfo, metric |-> metric, locus |-> locus]

RecordsOver(nf, nl, GTs, DPs, Ms, Layouts, Filters) ==
    {MkRecord(gt, dp, m, l, lay, fl) :
        gt \in [Samples -> GTs], dp \in [Samples -> DPs],
        m \in [1..nf -> [Samples -> Ms]], l \in [1..nl -> BOOLEAN],
        lay \in Layouts, fl \in Filters}

\* The input streams of n records over R; a record's position is its index.
InputsOf(n, R) == {[i \in 1..n |-> [r[i] EXCEPT !.pos = i]] : r \in [1..n -> R]}

CallOpts(k) == {CallFilterTable[i].opt : i \in 1..k}
LocusOpts(k) == {LocusFilterTable[i].opt : i \in 1..k}
EHOpts == {"eh_min_ADFL", "eh_min_ADIR"}

\* Every FORMAT field a configuration check looks for, and the two fields
\* of lines 749 and 751.
AllFormatFields ==
    {"AB", "FS"} \cup
    UNION {UNION {CheckSteps(Tools[t])[i].fields :
                    i \in {j \in 1..Len(CheckSteps(Tools[t])) :
                             CheckSteps(Tools[t])[j].kind = "opt"}} :
           t \in 1..Len(Tools)}

\* The tool whose options copts are (HipSTR when there is none).
ToolOf(copts) ==
    IF \E t \in 1..Len(Tools) : ToolOpts(Tools[t]) \cap copts # {}
    THEN Tools[CHOOSE t \in 1..Len(Tools) :
                 /\ ToolOpts(Tools[t]) \cap copts # {}
                 /\ \A u \in 1..(t - 1) : ToolOpts(Tools[u]) \cap copts = {}]
    ELSE "hipstr"

Undeclared == [declared |-> FALSE, Type |-> "", Number |-> "", Description |-> ""]
NoHeader == [id \in HeaderIds |-> Undeclared]

\* A configuration the checks accept: options in range, on a VCF of their
\* tool that declares every field, with none of main's annotations.
ArgsOf(copts, lopts, drop) ==
    [call_opts |-> copts, locus_opts |-> lopts, drop_filtered |-> drop,
     limited |-> FALSE, num_records |-> 0,
     vcftype |-> ToolOf(copts), format_fields |-> AllFormatFields,
     bad |-> {}, crossed |-> {}, header |-> NoHeader]

NoHist == [entry |-> NoRecord, si |-> <<>>, li |-> <<>>, cf_rec |-> NoRecord]

InitRest ==
    /\ call_filters = <<>>
    /\ locus_filters = <<>>
    /\ sample_info = [keys |-> <<>>, val |-> <<>>]
    /\ loc_info = [keys |-> <<>>, val |-> <<>>]
    /\ record = NoRecord
    /\ record_counter = 0
    /\ locus_filtered = FALSE
    /\ output = <<>>
    /\ logs = [written |-> FALSE, samplog |-> <<>>, loclog |-> <<>>]
    /\ err = NoErr
    /\ hist = NoHist
    /\ outvcf = "none"
    /\ warnings = {}
    /\ rc = -1
    /\ pc = "check"

\* Runs of up to MaxRecords records, with at most one call filter and one
\* locus filter, kept or dropped.
RunArgs == {ArgsOf(CallOpts(k), LocusOpts(l), d) :
               k \in 0..1, l \in 0..1, d \in BOOLEAN}
RunRecords(a) ==
    RecordsOver(Len(BuildCallFilters(a)), Len(BuildLocusFilters(a)),
                {Missing, Het}, {5}, {NaN, F(5)}, {"DP"}, {"PASS"})

Init ==
    /\ args \in RunArgs
    /\ mem = "dirty"
    /\ \E n \in 1..MaxRecords : input \in InputsOf(n, RunRecords(args))
    /\ InitRest

Spec == Init /\ [][Next]_vars

\* One record through ApplyCallFilters, with every depth value, every
\* format layout and up to MaxCallFilters call filters.
CallArgs == {ArgsOf(c, {}, FALSE) :
                c \in {CallOpts(k) : k \in 0..MaxCallFilters} \cup {EHOpts}}
CallRecords(a) ==
    RecordsOver(Len(BuildCallFilters(a)), 0,
                {Missing, Het}, {_NOCALL_INT_FORMAT_VAL, -1, 0, 5}, {NaN, F(5)},
                {"DP", "LC", "none", "full"}, {"PASS"})

InitCall ==
    /\ args \in CallArgs
    /\ mem = "dirty"
    /\ input \in InputsOf(1, CallRecords(args))
    /\ InitRest

SpecCall == InitCall /\ [][Next]_vars

\* One record with many call filters firing at once, on zeroed memory.
\* The HipSTR options but hipstr_max_call_DP (CheckHipSTRFilters keeps the
\* two depth thresholds consistent, so both cannot fire on one call).
TextFilters == 6
TextOptSeq == SelectSeq([i \in 1..8 |-> CallFilterTable[i].opt],
                        LAMBDA o : o # "hipstr_max_call_DP")
TextArgs == {ArgsOf({TextOptSeq[i] : i \in 1..k}, {}, FALSE) :
                k \in (TextFilters - 1)..TextFilters}
TextRecords(a) ==
    RecordsOver(Len(BuildCallFilters(a)), 0,
                {Missing, Het}, {5}, {NaN, F(5)}, {"DP"}, {"PASS"})

InitText ==
    /\ args \in TextArgs
    /\ mem = "clean"
    /\ input \in InputsOf(1, TextRecords(args))
    /\ InitRest

SpecText == InitText /\ [][Next]_vars

\* Runs of up to MaxRecords records whose depths may be missing.
DepthArgs == {ArgsOf(CallOpts(k), {}, FALSE) : k \in 0..1}
DepthRecords(a) ==
    RecordsOver(Len(BuildCallFilters(a)), 0,
                {Missing, Het}, {_NOCALL_INT_FORMAT_VAL, 5}, {NaN, F(5)},
                {"DP"}, {"PASS"})

InitDepth ==
    /\ args \in DepthArgs
    /\ mem = "dirty"
    /\ \E n \in 1..MaxRecords : input \in InputsOf(n, DepthRecords(args))
    /\ InitRest

SpecDepth == InitDepth /\ [][Next]_vars

\* One retained record with up to MaxAlt alternate alleles and every
\* genotype over them, one call filter and one locus filter.
Genotypes(n) == {Missing} \cup {<<x, y>> : x \in 0..n, y \in 0..n}

AnnotArgs == {ArgsOf(CallOpts(1), LocusOpts(1), FALSE)}
AnnotRecords(a) ==
    {[MkRecord(gt, [s \in Samples |-> 5], m, l, "DP", "PASS") EXCEPT !.nalt = n] :
        n \in 0..MaxAlt, gt \in UNION {[Samples -> Genotypes(k)] : k \in 0..MaxAlt},
        m \in [1..1 -> [Samples -> {NaN, F(5)}]], l \in [1..1 -> BOOLEAN]}

InitAnnot ==
    /\ args \in AnnotArgs
    /\ mem = "dirty"
    /\ \E r \in AnnotRecords(args) :
         /\ \A s \in Samples : \A i \in 1..2 : r.gt[s][i] <= r.nalt
         /\ input = <<[r EXCEPT !.pos = 1]>>
    /\ InitRest

SpecAnnot == InitAnnot /\ [][Next]_vars

\* A second run, with drop_filtered, over what a first run with the same call
\* filters wrote.  FirstRun is the first run's ApplyCallFilters on a record;
\* the record is written when a sample is still called; in the second run a
\* filter gives a sample that is still called what it gave it before, and
\* anything to a sample that is now uncalled.
IdemArgs == {ArgsOf(CallOpts(k), {}, TRUE) : k \in 1..MaxCallFilters}

\* A written record read again: its string fields are unicode arrays again.
Reread(rec) ==
    [rec EXCEPT !.format =
        [f \in DOMAIN rec.format |->
            IF rec.format[f].kind = "S"
            THEN [kind |-> "U", vals |-> rec.format[f].vals]
            ELSE rec.format[f]]]

FirstRun(a, r, e4, e6) ==
    ApplyCallFilters(r, BuildCallFilters(a), NewSampleInfo(BuildCallFilters(a)).val,
                     [s \in Samples |-> e4], [s \in Samples |-> e6])

OwnOutput(a) ==
    {[Reread(Annotate(FirstRun(a, r, e4, e6).rec)) EXCEPT !.metric = m] :
        r \in {x \in RecordsOver(Len(BuildCallFilters(a)), 0, {Missing, Het}, {5},
                                 {NaN, F(5)}, {"full"}, {"PASS"}) :
                 \E s \in Samples : GetCalledSamples(x)[s]},
        e4 \in {"", "PASS", "0.25"}, e6 \in {"", "NOCALL"},
        m \in [1..Len(BuildCallFilters(a)) -> [Samples -> {NaN, F(5)}]]}

InitIdem ==
    /\ args \in IdemArgs
    /\ mem = "dirty"
    /\ \E r \in OwnOutput(args) :
         /\ NumCalled(r) > 0
         /\ \A s \in Samples : GetCalledSamples(r)[s] =>
               \A i \in 1..Len(r.metric) : r.metric[i][s] = NaN
         /\ input = <<[r EXCEPT !.pos = 1]>>
    /\ InitRest

SpecIdem == InitIdem /\ [][Next]_vars

\* One all-called record under every kind of configuration: one call option
\* or a min/max pair of each tool, in or out of range, on a VCF of that tool
\* or of another one, with or without the fields of the option; locus
\* options in or out of range; and input headers that declare one or two of
\* main's annotations.
OptionSets ==
    {{CallFilterTable[i].opt} : i \in 1..Len(CallFilterTable)}
    \cup {{"hipstr_min_call_DP", "hipstr_max_call_DP"},
          {"eh_min_call_LC", "eh_max_call_LC"}, EHOpts, {}}

FieldsOf(copts) ==
    UNION {UNION {CheckSteps(Tools[t])[i].fields :
                    i \in {j \in 1..Len(CheckSteps(Tools[t])) :
                             /\ CheckSteps(Tools[t])[j].kind = "opt"
                             /\ CheckSteps(Tools[t])[j].opt \in copts}} :
           t \in 1..Len(Tools)}
    \cup (IF "hipstr_min_call_allele_bias" \in copts THEN {"AB"} ELSE {})
    \cup (IF "hipstr_min_call_strand_bias" \in copts THEN {"FS"} ELSE {})

CheckVariants ==
    {[ArgsOf(c, l, FALSE) EXCEPT !.vcftype = v, !.format_fields = ff,
                                 !.bad = b, !.crossed = x] :
        c \in OptionSets,
        l \in {{}, {"min_locus_het", "max_locus_het"}},
        v \in {"hipstr", "eh"},
        ff \in {AllFormatFields, AllFormatFields \ {"DP"}, AllFormatFields \ {"AB", "LC"}},
        b \in {{}, {"hipstr_min_call_DP", "eh_min_ADFL", "min_locus_het"}},
        x \in {{}, {"hipstr_max_call_DP", "max_locus_het"}}}

Declarations ==
    [declared : {TRUE}, Type : {"String", "Integer", "Float"},
     Number : {"1", "A"}, Description : {"dumpSTR", "other"}]

HeaderVariants ==
    {[ArgsOf({"hipstr_min_call_DP"}, {}, FALSE) EXCEPT
          !.header = [NoHeader EXCEPT ![i] = d, ![j] = e]] :
        i \in {"FILTER", "AC"}, j \in {"HET", "HRUN"},
        d \in Declarations \cup {Undeclared}, e \in Declarations \cup {Undeclared}}

ConfigRecords(a) ==
    RecordsOver(Len(BuildCallFilters(a)), Len(BuildLocusFilters(a)),
                {Het}, {5}, {NaN, F(5)}, {"DP"}, {"PASS"})

InitConfig ==
    /\ args \in CheckVariants \cup HeaderVariants
    /\ mem = "dirty"
    /\ input \in InputsOf(1, ConfigRecords(args))
    /\ InitRest

SpecConfig == InitConfig /\ [][Next]_vars

\* Runs of up to MaxRecords records with a record limit of 0..MaxRecords, or
\* with none, and no locus filter.
LimitArgs ==
    {[ArgsOf(CallOpts(k), {}, d) EXCEPT !.limited = l, !.num_records = n] :
        k \in 0..1, d \in BOOLEAN, l \in BOOLEAN, n \in 0..MaxRecords}
LimitRecords(a) ==
    RecordsOver(Len(BuildCallFilters(a)), 0,
                {Missing, Het}, {5}, {NaN, F(5)}, {"DP"}, {"PASS"})

InitLimit ==
    /\ args \in LimitArgs
    /\ ~args.limited => args.num_records = 0
    /\ mem = "dirty"
    /\ \E n \in 1..MaxRecords : input \in InputsOf(n, LimitRecords(args))
    /\ InitRest

SpecLimit == InitLimit /\ [][Next]_vars

\* One record of every format layout through ApplyCallFilters: with DP, with
\* LC, with both, with neither, with a float and a string field, with a
\* field of another array type.
FieldsArgs == {ArgsOf(CallOpts(k), {}, FALSE) : k \in 0..1}
FieldsRecords(a) ==
    RecordsOver(Len(BuildCallFilters(a)), 0,
                {Missing, Het}, {_NOCALL_INT_FORMAT_VAL, 0, 5}, {NaN, F(5)},
                {"DP", "LC", "both", "none", "full", "odd"}, {"PASS"})

InitFields ==
    /\ args \in FieldsArgs
    /\ mem = "dirty"
    /\ input \in InputsOf(1, FieldsRecords(args))
    /\ InitRest

SpecFields == InitFields /\ [][Next]_vars

\* One record through ApplyLocusFilters, with up to MaxLocusFilters locus
\* filters, any FILTER value on entry, kept or dropped.
LocusArgs == {ArgsOf(CallOpts(1), LocusOpts(l), d) :
                 l \in 0..MaxLocusFilters, d \in BOOLEAN}
LocusRecords(a) ==
    RecordsOver(Len(BuildCallFilters(a)), Len(BuildLocusFilters(a)),
                {Missing, Het}, {5}, {NaN, F(5)}, {"DP"}, {"PASS", "OLD"})

InitLocus ==
    /\ args \in LocusArgs
    /\ mem = "dirty"
    /\ input \in InputsOf(1, LocusRecords(args))
    /\ InitRest

SpecLocus == InitLocus /\ [][Next]_vars

-----------------------------------------------------------------------------
(* Vocabulary of the claims *)

\* ApplyCallFilters has just returned for the held record.
CallReturned == pc = "locus"

\* The per-sample FILTER text ApplyCallFilters wrote.
FilterText(rec) == rec.format["FILTER"].vals

CalledOnEntry(s) == GetCalledSamples(hist.entry)[s]

\* The i-th call filter fired on sample s of the record as read.
Fired(i, s) == ~FiltOutput(hist.entry, i)[s].nan

FiredOn(s) == {i \in 1..Len(call_filters) : Fired(i, s)}

IsFiltered(rec, s) == FilterText(rec)[s] \notin {"PASS", "NOCALL"}

\* <name>_<value> items of the filters i..n that fired on s, joined by ",".
RECURSIVE JoinFired(_, _, _)
JoinFired(i, s, first) ==
    IF i > Len(call_filters) THEN ""
    ELSE IF ~Fired(i, s) THEN JoinFired(i + 1, s, first)
    ELSE (IF first THEN "" ELSE ",")
         \o call_filters[i].name \o "_" \o FmtG(FiltOutput(hist.entry, i)[s])
         \o JoinFired(i + 1, s, FALSE)

-----------------------------------------------------------------------------
(* C1 *)

\* C1: after ApplyCallFilters every sample is in exactly one of the classes
\* PASS, NOCALL, filtered, and its FILTER text is "PASS", "NOCALL" or the
\* comma-joined <name>_<value> items of exactly the filters that fired on
\* it, in configured order, no filter name twice - for any number of
\* filters firing at once.
C1_FilterTextWellFormed ==
    CallReturned =>
        /\ Cardinality({s \in Samples : FilterText(record)[s] = "PASS"})
           + Cardinality({s \in Samples : FilterText(record)[s] = "NOCALL"})
           + Cardinality({s \in Samples : IsFiltered(record, s)}) = NumSamples
        /\ \A s \in Samples :
             \/ FilterText(record)[s] = "PASS"
             \/ FilterText(record)[s] = "NOCALL"
             \/ /\ FiredOn(s) # {}
                /\ FilterText(record)[s] = JoinFired(1, s, TRUE)
                /\ \A i, j \in FiredOn(s) :
                     i # j => call_filters[i].name # call_filters[j].name

-----------------------------------------------------------------------------
(* C2 *)

\* C2: a sample that is uncalled on entry ends with FILTER text exactly
\* "NOCALL" whatever filters fired on it, is not in the filtered set, and
\* none of its per-sample fields is rewritten by masking.
C2_NocallKeepsNocall ==
    CallReturned =>
        \A s \in Samples :
            ~CalledOnEntry(s) =>
                /\ FilterText(record)[s] = "NOCALL"
                /\ ~IsFiltered(record, s)
                /\ record.gt[s] = hist.entry.gt[s]
                /\ \A f \in DOMAIN hist.entry.format :
                     record.format[f].vals[s] = hist.entry.format[f].vals[s]

\* A filter fired on an uncalled sample while another sample was masked.
C2_Witness ==
    /\ CallReturned
    /\ \E s, t \in Samples :
         /\ ~CalledOnEntry(s) /\ FiredOn(s) # {}
         /\ IsFiltered(record, t)
         /\ "GB" \in DOMAIN record.format

-----------------------------------------------------------------------------
(* C3 *)

\* C3: for each call filter f, ApplyCallFilters raises sample_info[f.name][s]
\* by exactly 1 for every sample s called on entry on which f fired, and
\* leaves it unchanged for every other sample.
C3_CounterPerFilter ==
    CallReturned =>
        \A i \in 1..Len(call_filters) : \A s \in Samples :
            sample_info.val[call_filters[i].name][s]
                - hist.si[call_filters[i].name][s]
            = IF CalledOnEntry(s) /\ Fired(i, s) THEN 1 ELSE 0

-----------------------------------------------------------------------------
(* C4 *)

DepthOnEntry(s) == DepthField(hist.entry).vals[s]

IsPass(s) == FilterText(record)[s] = "PASS"

NumcallsDelta(s) == sample_info.val["numcalls"][s] - hist.si["numcalls"][s]

\* C4 as stated: numcalls rises by 1 for exactly the PASS samples and
\* totaldp by the depth of exactly the PASS samples.
C4_AsStated ==
    CallReturned =>
        \A s \in Samples :
            /\ NumcallsDelta(s) = IF IsPass(s) THEN 1 ELSE 0
            /\ sample_info.val["totaldp"][s]
               = FAdd(hist.si["totaldp"][s],
                      F(IF IsPass(s) THEN DepthOnEntry(s) ELSE 0))

\* C4 (amended): numcalls rises by 1 for exactly the PASS samples; totaldp
\* rises by the depth of the PASS samples whose depth is not the missing
\* sentinel and becomes NaN for a PASS sample whose depth is the sentinel;
\* filtered and NOCALL samples change neither counter.
C4_PassCounters ==
    CallReturned =>
        \A s \in Samples :
            /\ NumcallsDelta(s) = IF IsPass(s) THEN 1 ELSE 0
            /\ sample_info.val["totaldp"][s]
               = IF ~IsPass(s) THEN hist.si["totaldp"][s]
                 ELSE IF DepthOnEntry(s) = _NOCALL_INT_FORMAT_VAL THEN NaN
                 ELSE FAdd(hist.si["totaldp"][s], F(DepthOnEntry(s)))

\* One sample filtered by the call filter, the other passing with depth 5.
C4_Witness ==
    /\ CallReturned
    /\ Len(call_filters) = 1
    /\ \E s, t \in Samples :
         /\ IsFiltered(record, s) /\ CalledOnEntry(s)
         /\ sample_info.val[call_filters[1].name][s] = 1
         /\ IsPass(t) /\ DepthOnEntry(t) = 5
         /\ sample_info.val["numcalls"][t] = 1
         /\ sample_info.val["totaldp"][t] = F(5)
         /\ sample_info.val["numcalls"][s] = 0
         /\ sample_info.val["totaldp"][s] = F(0)

-----------------------------------------------------------------------------
(* C5 *)

\* C5: when some sample is filtered, the returned record has, for every
\* filtered sample, a genotype of missing alleles of the record's ploidy and
\* the missing value of its type in every format field but GT and FILTER.
C5_FilteredSamplesMasked ==
    CallReturned =>
        \A s \in Samples :
            IsFiltered(record, s) =>
                /\ record.gt[s] = [i \in 1..hist.entry.ploidy |-> -1]
                /\ \A f \in (DOMAIN record.format) \ {"GT", "FILTER"} :
                     record.format[f].vals[s]
                     = (CASE hist.entry.format[f].kind = "f" -> NaN
                          [] hist.entry.format[f].kind = "i" -> -2147483647 - 1
                          [] hist.entry.format[f].kind = "U" -> ".")

\* A called sample was filtered in a record with an integer, a float and a
\* string field.
C5_Witness ==
    /\ CallReturned
    /\ {"DP", "Q", "GB"} \subseteq DOMAIN record.format
    /\ \E s \in Samples :
         /\ IsFiltered(record, s) /\ CalledOnEntry(s)
         /\ hist.entry.format["DP"].vals[s] = 5

-----------------------------------------------------------------------------
(* C6 *)

CallStepDone == pc \in {"locus", "crashed"}

NegativeDepthCalled(s) ==
    /\ CalledOnEntry(s)
    /\ DepthField(hist.entry).found
    /\ DepthOnEntry(s) < 0
    /\ DepthOnEntry(s) # _NOCALL_INT_FORMAT_VAL

\* C6: if a called sample has a negative depth that is not the missing
\* sentinel, ApplyCallFilters raises the ValueError that names the
\* chromosome, the position and the samples - whether or not a call filter
\* fired on that sample.
C6_NegativeDepthRaises ==
    (CallStepDone /\ \E s \in Samples : NegativeDepthCalled(s)) =>
        /\ pc = "crashed"
        /\ err.type = "ValueError"

-----------------------------------------------------------------------------
(* C7 *)

MissingDepthPass(s) == IsPass(s) /\ DepthOnEntry(s) = _NOCALL_INT_FORMAT_VAL

\* C7: a PASS sample whose depth is the missing sentinel gets totaldp NaN at
\* that record; a total that is NaN stays NaN after every later record; and
\* the total of every other sample moves by that sample's own depth only.
C7_MissingDepthPoisons ==
    CallReturned =>
        \A s \in Samples :
            /\ MissingDepthPass(s) => sample_info.val["totaldp"][s] = NaN
            /\ hist.si["totaldp"][s].nan => sample_info.val["totaldp"][s].nan
            /\ ~MissingDepthPass(s) =>
                 sample_info.val["totaldp"][s]
                 = FAdd(hist.si["totaldp"][s],
                        F(IF IsPass(s) THEN DepthOnEntry(s) ELSE 0))

\* The second record: a sample whose total became NaN at the first record
\* passes with depth 5 and keeps NaN, next to a sample that passed twice.
C7_Witness ==
    /\ CallReturned
    /\ record_counter = 2
    /\ \E s, t \in Samples :
         /\ hist.si["totaldp"][s].nan
         /\ IsPass(s) /\ DepthOnEntry(s) = 5
         /\ sample_info.val["totaldp"][s] = NaN
         /\ sample_info.val["totaldp"][t] = F(10)

-----------------------------------------------------------------------------
(* C8, C9, C10 *)

\* ApplyLocusFilters has just returned for the held record.
LocusReturned == pc = "emit"

LocusFiredOn(rec) == {i \in 1..Len(locus_filters) : LocusFires(rec, i)}

LocInfoDelta(key) == loc_info.val[key] - hist.li[key]

RECURSIVE JoinReasons(_, _, _)
JoinReasons(i, rec, first) ==
    IF i > Len(locus_filters) THEN ""
    ELSE IF ~LocusFires(rec, i) THEN JoinReasons(i + 1, rec, first)
    ELSE (IF first THEN "" ELSE ";") \o locus_filters[i].name
         \o JoinReasons(i + 1, rec, FALSE)

\* C8: every configured locus filter is evaluated on the record, each one
\* that fires raises its loc_info counter by exactly 1 and the others leave
\* theirs alone; when filtered loci are retained and some filter fires, FILTER
\* is the firing filters' reason codes in configured order joined by ';',
\* followed by NO_CALLS_REMAINING when no sample is called, in place of the
\* FILTER the record had on entry.
C8_EveryLocusFilterCounted ==
    LocusReturned =>
        /\ \A i \in 1..Len(locus_filters) :
             LocInfoDelta(locus_filters[i].name)
             = IF LocusFires(hist.cf_rec, i) THEN 1 ELSE 0
        /\ (~args.drop_filtered /\ LocusFiredOn(hist.cf_rec) # {}) =>
             record.FILTER
             = JoinReasons(1, hist.cf_rec, TRUE)
               \o (IF NumCalled(hist.cf_rec) = 0
                   THEN ";NO_CALLS_REMAINING" ELSE "")

\* Retained record on which the first and the last of three filters fired,
\* with no sample called and another FILTER on entry.
C8_Witness ==
    /\ LocusReturned
    /\ ~args.drop_filtered
    /\ Len(locus_filters) = 3
    /\ LocusFiredOn(hist.cf_rec) = {1, 3}
    /\ NumCalled(hist.cf_rec) = 0
    /\ hist.cf_rec.FILTER = "OLD"
    /\ record.FILTER = "CALLRATE;HETLOW;NO_CALLS_REMAINING"
    /\ loc_info.val["CALLRATE"] = 1 /\ loc_info.val["HWE"] = 0

\* C9: a record with no called sample after call filtering raises
\* NO_CALLS_REMAINING by exactly 1 and is reported filtered whatever locus
\* filters are configured; a record with a called sample leaves the counter
\* unchanged.
C9_NoCallsRemaining ==
    LocusReturned =>
        IF NumCalled(hist.cf_rec) = 0
        THEN LocInfoDelta("NO_CALLS_REMAINING") = 1 /\ locus_filtered
        ELSE LocInfoDelta("NO_CALLS_REMAINING") = 0

\* The only called sample was masked by the call filter, a locus filter fired
\* too, and the record is reported filtered.
C9_Witness ==
    /\ LocusReturned
    /\ NumCalled(hist.entry) = 1
    /\ NumCalled(hist.cf_rec) = 0
    /\ LocusFiredOn(hist.cf_rec) # {}
    /\ loc_info.val["NO_CALLS_REMAINING"] = 1
    /\ locus_filtered

\* C10 as stated: with no locus filter firing and a called sample, FILTER is
\* "PASS", PASS rises by 1, totalcalls by the number of called samples and
\* the record is not filtered, in either mode; otherwise PASS and totalcalls
\* are unchanged.
C10_AsStated ==
    LocusReturned =>
        IF LocusFiredOn(hist.cf_rec) = {} /\ NumCalled(hist.cf_rec) > 0
        THEN /\ record.FILTER = "PASS"
             /\ LocInfoDelta("PASS") = 1
             /\ LocInfoDelta("totalcalls") = NumCalled(hist.cf_rec)
             /\ ~locus_filtered
        ELSE LocInfoDelta("PASS") = 0 /\ LocInfoDelta("totalcalls") = 0

\* C10 (amended): with no locus filter firing and a called sample, PASS rises
\* by 1, totalcalls by the number of called samples and the record is not
\* filtered, in either mode; FILTER is set to "PASS" when filtered loci are
\* retained and is left as it was on entry when they are dropped; otherwise
\* PASS and totalcalls are unchanged.
C10_PassLocus ==
    LocusReturned =>
        IF LocusFiredOn(hist.cf_rec) = {} /\ NumCalled(hist.cf_rec) > 0
        THEN /\ record.FILTER = IF args.drop_filtered
                                THEN hist.cf_rec.FILTER ELSE "PASS"
             /\ LocInfoDelta("PASS") = 1
             /\ LocInfoDelta("totalcalls") = NumCalled(hist.cf_rec)
             /\ ~locus_filtered
        ELSE LocInfoDelta("PASS") = 0 /\ LocInfoDelta("totalcalls") = 0

\* A passing record with two called samples in drop-filtered mode that had
\* another FILTER on entry.
C10_Witness ==
    /\ LocusReturned
    /\ args.drop_filtered
    /\ Len(locus_filters) > 0
    /\ LocusFiredOn(hist.cf_rec) = {}
    /\ NumCalled(hist.cf_rec) = 2
    /\ hist.cf_rec.FILTER = "OLD"
    /\ loc_info.val["PASS"] = 1 /\ loc_info.val["totalcalls"] = 2
    /\ ~locus_filtered

-----------------------------------------------------------------------------
(* C11, C12 *)

Dropped == args.drop_filtered /\ locus_filtered

\* C11: every record of the loop goes through call filtering, then locus
\* filtering of the call-masked record, and is then dropped or annotated and
\* written; it is dropped, and never written, exactly when drop_filtered is
\* set and ApplyLocusFilters returned True, and the two statistics tables
\* keep what was counted for it; any other record is written exactly once.
C11_DropOrWriteOnce ==
    [][ /\ pc = "call" => pc' \in {"locus", "crashed"}
        /\ pc = "locus" => pc' = "emit" /\ hist'.cf_rec = record
        /\ pc = "emit" =>
             /\ pc' = "read"
             /\ output' = IF Dropped THEN output
                          ELSE Append(output, record')
             /\ ~Dropped => record'.pos = record.pos /\ record'.gt = record.gt
             /\ sample_info' = sample_info /\ loc_info' = loc_info
        /\ pc # "emit" => output' = output
        /\ pc = "read" => sample_info' = sample_info /\ loc_info' = loc_info
      ]_vars

\* The first record was dropped with its counts kept, the second written.
C11_Witness ==
    /\ pc = "finish"
    /\ args.drop_filtered
    /\ record_counter = 2
    /\ Len(output) = 1 /\ output[1].pos = 2
    /\ Len(locus_filters) = 1
    /\ loc_info.val[locus_filters[1].name] = 1
    /\ loc_info.val["PASS"] = 1
    /\ sample_info.val["numcalls"][1] = 2

\* C12: the written records are a subsequence of the input in its order:
\* positions strictly increase along the output, every written record was
\* read before, and the record held is written before the next one is read.
C12_OutputInInputOrder ==
    /\ \A i, j \in 1..Len(output) : i < j => output[i].pos < output[j].pos
    /\ \A i \in 1..Len(output) : output[i].pos \in 1..record_counter
    /\ pc \in {"call", "locus", "emit"} =>
         \A i \in 1..Len(output) : output[i].pos < record_counter
    /\ \A i \in 1..Len(input) : input[i].pos = record_counter + i

\* Both records written, in the order read.
C12_Witness ==
    /\ pc = "finish"
    /\ Len(output) = 2
    /\ output[1].pos = 1 /\ output[2].pos = 2

-----------------------------------------------------------------------------
(* C13, C14 *)

EndsWith(str, suffix) ==
    /\ Len(str) >= Len(suffix)
    /\ SubSeq(str, Len(str) - Len(suffix) + 1, Len(str)) = suffix

RECURSIVE SumSeq(_)
SumSeq(q) == IF q = <<>> THEN 0 ELSE Head(q) + SumSeq(Tail(q))

\* The allele observations of the called samples of rec.
Observations(rec) ==
    {<<s, i>> \in Samples \X (1..rec.ploidy) :
        GetCalledSamples(rec)[s] /\ rec.gt[s][i] # -1}

\* C13: a written record with no called sample has HET = -1, HWEP = -1,
\* REFAC = 0, one zero in AC per alternate allele (a single 0 without
\* alternate allele), none of the metric functions applied, and a FILTER
\* that ends with NO_CALLS_REMAINING; a written record with a called sample
\* has the values of the metric functions.
C13_NoCallAnnotation ==
    \A k \in 1..Len(output) :
        LET rec == output[k]
        IN  IF NumCalled(rec) = 0
            THEN /\ rec.INFO.HET = "-1"
                 /\ rec.INFO.HWEP = "-1"
                 /\ rec.INFO.REFAC = 0
                 /\ rec.INFO.AC = IF rec.nalt = 0 THEN <<0>>
                                  ELSE [a \in 1..rec.nalt |-> 0]
                 /\ EndsWith(rec.FILTER, "NO_CALLS_REMAINING")
            ELSE /\ rec.INFO.HET = "GetHeterozygosity"
                 /\ rec.INFO.HWEP = "GetHardyWeinbergBinomialTest"

\* A written record with two alternate alleles whose only called sample was
\* masked by the call filter, with a locus filter's code in front.
C13_Witness ==
    /\ Len(output) = 1
    /\ NumCalled(hist.entry) = 1
    /\ NumCalled(output[1]) = 0
    /\ output[1].nalt = 2
    /\ output[1].INFO.AC = <<0, 0>>
    /\ output[1].FILTER = "CALLRATE;NO_CALLS_REMAINING"

\* C14 as stated: for a written record with a called sample, REFAC plus the
\* AC entries is the number of allele observations of the called samples, AC
\* has exactly one entry per alternate allele, and an allele no called
\* sample carries has count 0.
C14_AsStated ==
    \A k \in 1..Len(output) :
        LET rec == output[k]
        IN  NumCalled(rec) > 0 =>
              /\ rec.INFO.REFAC + SumSeq(rec.INFO.AC) = Cardinality(Observations(rec))
              /\ Len(rec.INFO.AC) = rec.nalt
              /\ \A a \in 1..rec.nalt :
                   (\A o \in Observations(rec) : rec.gt[o[1]][o[2]] # a)
                       => rec.INFO.AC[a] = 0

\* C14 (amended): the same, but a record without alternate allele has the
\* single entry 0 in AC.
C14_AlleleCounts ==
    \A k \in 1..Len(output) :
        LET rec == output[k]
        IN  NumCalled(rec) > 0 =>
              /\ rec.INFO.REFAC + SumSeq(rec.INFO.AC) = Cardinality(Observations(rec))
              /\ Len(rec.INFO.AC) = IF rec.nalt = 0 THEN 1 ELSE rec.nalt
              /\ rec.nalt = 0 => rec.INFO.AC = <<0>>
              /\ \A a \in 1..rec.nalt :
                   (\A o \in Observations(rec) : rec.gt[o[1]][o[2]] # a)
                       => rec.INFO.AC[a] = 0

\* Two alternate alleles, one sample masked, the other carrying the
\* reference and the second alternate allele.
C14_Witness ==
    /\ Len(output) = 1
    /\ output[1].nalt = 2
    /\ NumCalled(hist.entry) = 2
    /\ NumCalled(output[1]) = 1
    /\ output[1].INFO.REFAC = 1
    /\ output[1].INFO.AC = <<0, 1>>

-----------------------------------------------------------------------------
(* C15, C16, C17 *)

\* C15: when CheckFilters returns False main returns 1 with no writer
\* created, no record read or filtered and no log written.
C15_RejectedBeforeOutput ==
    CheckFilters(args) = "False" =>
        /\ pc \in {"check", "done"}
        /\ pc = "done" => rc = 1
        /\ outvcf = "none"
        /\ record = NoRecord /\ record_counter = 0
        /\ output = <<>>
        /\ ~logs.written

\* main has returned 1 for a HipSTR depth threshold out of range.
C15_Witness ==
    /\ pc = "done" /\ rc = 1
    /\ args.vcftype = "hipstr"
    /\ "hipstr_min_call_DP" \in args.call_opts \cap args.bad
    /\ CheckFilters(args) = "False"
    /\ input # <<>>

\* C16: for every call option, when a FORMAT field its filter reads is not
\* declared by the input, CheckFilters returns False and main returns 1 -
\* the configuration is neither accepted nor left by an exception.
C16_MissingFieldRejected ==
    pc # "check" =>
        \A o \in args.call_opts :
            ~(FieldsOf({o}) \subseteq args.format_fields) =>
                pc = "done" /\ rc = 1

\* C17: if the input header declares FILTER (FORMAT) or AC, REFAC, HET, HWEP,
\* HRUN (INFO) with another Type or Number, main returns 1 before the writer
\* is created and before any record is read; if Type and Number match and
\* the description differs, main warns and goes on.
C17_HeaderConflicts ==
    (pc \notin {"check", "header"} /\ CheckFilters(args) = "True") =>
        IF field_issues(args)
        THEN /\ pc = "done" /\ rc = 1
             /\ outvcf = "none" /\ record_counter = 0 /\ output = <<>>
        ELSE /\ rc # 1
             /\ \A i \in 1..Len(HeaderTable) :
                  (/\ Declared(args, HeaderTable[i].id)
                   /\ args.header[HeaderTable[i].id].Description # "dumpSTR")
                      => ("overwrite:" \o HeaderTable[i].id) \in warnings

-----------------------------------------------------------------------------
(* C18, C19 *)

TablesBuilt == pc \in {"read", "call", "locus", "emit", "finish"}

\* C18: the sample statistics table is numcalls, totaldp and then one entry
\* per call filter of BuildCallFilters, in its order: 2 + Len(call_filters)
\* entries, the filters' names being pairwise distinct.
C18_OneCounterPerCallFilter ==
    TablesBuilt =>
        /\ sample_info.keys = <<"numcalls", "totaldp">> \o GetAllCallFilters(call_filters)
        /\ Len(sample_info.keys) = 2 + Len(call_filters)
        /\ \A i, j \in 1..Len(call_filters) :
             i # j => call_filters[i].name # call_filters[j].name

\* C19: the locus statistics table is totalcalls, PASS, one entry per locus
\* filter in configured order and NO_CALLS_REMAINING last, and the locus log
\* lists the counters in that order.
C19_LocusTableOrder ==
    LET order == <<"totalcalls", "PASS">>
                 \o [i \in 1..Len(locus_filters) |-> locus_filters[i].name]
                 \o <<"NO_CALLS_REMAINING">>
    IN  /\ TablesBuilt => loc_info.keys = order
        /\ logs.written =>
             [i \in 1..(Len(logs.loclog) - 1) |-> logs.loclog[i + 1].label]
             = [i \in 1..(Len(order) - 1) |-> "FILTER:" \o order[i + 1]]

-----------------------------------------------------------------------------
(* C20 *)

\* C20: in a run with drop_filtered over the output of a run with the same
\* filters, no call filter's counter rises, no further sample is masked and
\* so no record is filtered or dropped on account of the call filters.
C20_SecondRunChangesNothing ==
    /\ CallStepDone =>
         /\ pc = "locus"
         /\ \A i \in 1..Len(call_filters) : \A s \in Samples :
              sample_info.val[call_filters[i].name][s] = 0
         /\ \A s \in Samples : ~IsFiltered(record, s)
         /\ record.gt = hist.entry.gt
    /\ LocusReturned => ~locus_filtered
    /\ pc = "finish" => Len(output) = record_counter

-----------------------------------------------------------------------------
(* C21 *)

\* C21: the locus log starts with the mean number of samples per passing
\* locus, totalcalls / PASS, and 0 when PASS is 0; then it has exactly one
\* row, name and count, for every counter of loc_info but totalcalls.
C21_LocLogRows ==
    logs.written =>
        LET rows == logs.loclog
            counters == Range(loc_info.keys) \ {"totalcalls"}
        IN  /\ rows[1].label = "MeanSamplesPerPassingSTR"
            /\ rows[1].value = IF loc_info.val["PASS"] = 0 THEN <<0, 1>>
                               ELSE <<loc_info.val["totalcalls"], loc_info.val["PASS"]>>
            /\ Len(rows) = 1 + Cardinality(counters)
            /\ \A k \in counters :
                 Cardinality({i \in 2..Len(rows) :
                                 /\ rows[i].label = "FILTER:" \o k
                                 /\ rows[i].value = loc_info.val[k]}) = 1
            /\ \A i \in 2..Len(rows) : rows[i].label # "FILTER:totalcalls"

\* The log of a run in which two loci passed with three calls and one locus
\* filter was configured.
C21_Witness ==
    /\ logs.written
    /\ Len(locus_filters) = 1
    /\ loc_info.val["PASS"] = 2 /\ loc_info.val["totalcalls"] = 3
    /\ logs.loclog[1].value = <<3, 2>>
    /\ Len(logs.loclog) = 4

-----------------------------------------------------------------------------
(* C22 *)

\* totaldp moved as the depth values vals say: a PASS sample adds its depth,
\* or gets NaN when its depth is the missing sentinel.
DepthBackedBy(vals) ==
    \A s \in Samples :
        sample_info.val["totaldp"][s]
        = IF ~IsPass(s) THEN hist.si["totaldp"][s]
          ELSE IF vals[s] = _NOCALL_INT_FORMAT_VAL THEN NaN
          ELSE FAdd(hist.si["totaldp"][s], F(vals[s]))

\* C22: ApplyCallFilters takes the depth from DP when the record has it,
\* otherwise from LC; when the record has neither, every sample's depth
\* total becomes NaN and the call returns without an error.
C22_DepthFallback ==
    CallStepDone =>
        IF "DP" \in DOMAIN hist.entry.format
        THEN DepthBackedBy(hist.entry.format["DP"].vals)
        ELSE IF "LC" \in DOMAIN hist.entry.format
        THEN DepthBackedBy(hist.entry.format["LC"].vals)
        ELSE /\ pc = "locus"
             /\ \A s \in Samples : sample_info.val["totaldp"][s] = NaN

-----------------------------------------------------------------------------
(* C23 *)

WithoutFilterField(rec) ==
    [rec EXCEPT !.format = [f \in (DOMAIN rec.format) \ {"FILTER"} |-> rec.format[f]]]

\* C23: ApplyCallFilters leaves the genotype and every per-sample field but
\* FILTER of a sample outside the filtered set as they were; when the
\* filtered set is empty the record it returns is the record it was given
\* with the FILTER annotation.
C23_UnfilteredUntouched ==
    CallStepDone =>
        /\ \A s \in Samples :
             ~IsFiltered(record, s) =>
                 /\ record.gt[s] = hist.entry.gt[s]
                 /\ \A f \in (DOMAIN hist.entry.format) \ {"FILTER"} :
                      record.format[f].vals[s] = hist.entry.format[f].vals[s]
        /\ (pc = "locus" /\ \A s \in Samples : ~IsFiltered(record, s)) =>
             WithoutFilterField(record) = WithoutFilterField(hist.entry)

\* One sample masked, the other passing with its depth, quality and string
\* field kept.
C23_Witness ==
    /\ CallReturned
    /\ {"DP", "Q", "GB"} \subseteq DOMAIN record.format
    /\ \E s, t \in Samples :
         /\ IsFiltered(record, s) /\ CalledOnEntry(s)
         /\ record.gt[s] = Missing
         /\ IsPass(t)
         /\ record.gt[t] = Het
         /\ record.format["DP"].vals[t] = 5
         /\ record.format["GB"].vals[t] = "0|1"
         /\ record.format["DP"].vals[s] = _NOCALL_INT_FORMAT_VAL

-----------------------------------------------------------------------------
(* C27 *)

\* The fields of rec whose array type line 677 rejects.
UnknownFields(rec) ==
    {f \in (DOMAIN rec.format) \ {"GT", "FILTER"} :
        rec.format[f].kind \notin {"U", "f", "i"}}

\* ApplyCallFilters got as far as the masking of the record as read.
MaskingReached ==
    /\ CallStepDone
    /\ DepthField(hist.entry).found
    /\ ~\E s \in Samples : IsPass(s) /\ DepthOnEntry(s) < 0
                           /\ DepthOnEntry(s) # _NOCALL_INT_FORMAT_VAL
    /\ \E s \in Samples : IsFiltered(record, s)

\* C27: when masking meets a per-sample field (not GT, not FILTER) whose
\* array is not of strings, floats or signed integers, ApplyCallFilters
\* raises a ValueError that names the field, and the record is neither
\* returned nor written; this happens only when a sample is filtered.
C27_UnknownFieldType ==
    /\ (MaskingReached /\ UnknownFields(hist.entry) # {}) =>
          /\ pc = "crashed"
          /\ err.type = "ValueError" /\ err.arg \in UnknownFields(hist.entry)
          /\ output = <<>>
    /\ (pc = "crashed" /\ err.type = "ValueError") =>
          \E s \in Samples : IsFiltered(record, s)
    /\ (CallStepDone /\ DepthField(hist.entry).found
          /\ ~\E s \in Samples : IsFiltered(record, s)) => pc = "locus"
    /\ \A k \in 1..Len(output) :
          (output[k].pos = hist.entry.pos /\ UnknownFields(hist.entry) # {}) =>
              \A s \in Samples : ~IsFiltered(output[k], s)

\* The call filter fired on a called sample of a record with a field of
\* unsigned integers, and main ended with the ValueError naming the field.
C27_Witness ==
    /\ pc = "crashed"
    /\ err = [type |-> "ValueError", arg |-> "PS"]
    /\ Len(call_filters) = 1
    /\ \E s \in Samples : CalledOnEntry(s) /\ Fired(1, s) /\ IsFiltered(record, s)
    /\ output = <<>>

-----------------------------------------------------------------------------
(* C24 *)

Perms(n) == {p \in [1..n -> 1..n] : \A i, j \in 1..n : i # j => p[i] # p[j]}

\* The ';'-separated codes of a FILTER text.
RECURSIVE SplitCodes(_, _, _)
SplitCodes(str, i, start) ==
    IF i > Len(str) THEN {SubSeq(str, start, Len(str))}
    ELSE IF SubSeq(str, i, i) = ";"
    THEN {SubSeq(str, start, i - 1)} \cup SplitCodes(str, i + 1, i + 1)
    ELSE SplitCodes(str, i + 1, start)

\* ApplyLocusFilters on the record it was just given, with the locus filters
\* listed in the order p.
Permuted(p) ==
    ApplyLocusFilters(
        [hist.cf_rec EXCEPT !.locus = [i \in 1..Len(locus_filters) |-> hist.cf_rec.locus[p[i]]]],
        [i \in 1..Len(locus_filters) |-> locus_filters[p[i]]],
        hist.li, args.drop_filtered)

\* C24: with the locus filters in any other order ApplyLocusFilters returns
\* the same result and leaves the same loc_info; the FILTER text has the
\* same reason codes, possibly in another order.
C24_LocusOrderIrrelevant ==
    LocusReturned =>
        \A p \in Perms(Len(locus_filters)) :
            /\ Permuted(p).filtered = locus_filtered
            /\ Permuted(p).li = loc_info.val
            /\ SplitCodes(Permuted(p).FILTER, 1, 1) = SplitCodes(record.FILTER, 1, 1)
            /\ Len(Permuted(p).FILTER) = Len(record.FILTER)

\* Two of three filters fired on a retained record, and another order of
\* the filters gives the same counters and another FILTER text.
C24_Witness ==
    /\ LocusReturned
    /\ ~args.drop_filtered
    /\ Len(locus_filters) = 3
    /\ LocusFiredOn(hist.cf_rec) = {1, 3}
    /\ record.FILTER = "CALLRATE;HETLOW"
    /\ \E p \in Perms(3) :
         /\ Permuted(p).FILTER = "HETLOW;CALLRATE"
         /\ Permuted(p).li = loc_info.val

-----------------------------------------------------------------------------
(* C25 *)

Class(text) == IF text \in {"PASS", "NOCALL"} THEN text ELSE "filtered"

\* ApplyCallFilters on the record as read, with the call filters listed in
\* the order p and e4, e6 in the two new arrays.
PermutedCall(p, e4, e6) ==
    ApplyCallFilters(
        [hist.entry EXCEPT !.metric = [i \in 1..Len(call_filters) |-> hist.entry.metric[p[i]]]],
        [i \in 1..Len(call_filters) |-> call_filters[p[i]]],
        hist.si, [s \in Samples |-> e4], [s \in Samples |-> e6])

\* C25: with the call filters in any other order ApplyCallFilters ends the
\* same way, gives every sample the same class (PASS, NOCALL, filtered),
\* the same masked record and the same sample_info.
C25_CallOrderIrrelevant ==
    CallStepDone =>
        \A p \in Perms(Len(call_filters)) : \A e4 \in EmptyU4, e6 \in EmptyU6 :
            LET r == PermutedCall(p, e4, e6)
            IN  /\ (r.end = "return") = (pc = "locus")
                /\ \A s \in Samples :
                     Class(FilterText(r.rec)[s]) = Class(FilterText(record)[s])
                /\ WithoutFilterField([r.rec EXCEPT !.metric = hist.entry.metric])
                   = WithoutFilterField(record)
                /\ r.si = sample_info.val

-----------------------------------------------------------------------------
(* C26 *)

\* The records ApplyLocusFilters has counted when no locus filter is
\* configured: each one is a PASS or a NO_CALLS_REMAINING.
Processed == loc_info.val["PASS"] + loc_info.val["NO_CALLS_REMAINING"]

\* The number of records the run is to process: the limit, or all of them.
ToProcess ==
    IF args.limited /\ args.num_records < record_counter + Len(input)
    THEN args.num_records ELSE record_counter + Len(input)

AtLimit == args.limited /\ record_counter >= args.num_records

\* C26: with a record limit N main leaves the loop only between records:
\* min(N, number of input records) records go through call and locus
\* filtering, each completely; the record read after the N-th changes
\* neither statistics table nor the output; and the two logs are written
\* from the tables as the processed records left them.
C26_RecordLimit ==
    /\ [](/\ pc \in {"call", "locus", "emit"} =>
               /\ args.limited => record_counter <= args.num_records
               /\ Processed = record_counter - (IF pc = "emit" THEN 0 ELSE 1)
          /\ pc \in {"finish", "done"} /\ rc # 1 =>
               /\ Processed = ToProcess
               /\ ~args.drop_filtered => Len(output) = ToProcess
               /\ \A s \in Samples : sample_info.val["numcalls"][s] <= ToProcess
          /\ logs.written =>
               /\ logs.samplog = sample_info
               /\ logs.loclog = WriteLocLog(loc_info))
    /\ [][ /\ (pc = "read" /\ AtLimit) =>
                /\ pc' = "finish"
                /\ sample_info' = sample_info /\ loc_info' = loc_info
                /\ output' = output
           /\ (pc = "read" /\ ~AtLimit /\ input # <<>>) => pc' = "call"
           /\ pc = "call" => pc' \in {"locus", "crashed"}
           /\ pc = "locus" => pc' = "emit"
           /\ pc = "emit" => pc' = "read"
         ]_vars

\* A run with limit 1 over two records: the first one was processed and
\* written, the second one read and left alone, and the logs were written.
C26_Witness ==
    /\ pc = "done" /\ rc = 0
    /\ args.limited /\ args.num_records = 1
    /\ record_counter = 2 /\ hist.entry.pos = 2
    /\ Processed = 1
    /\ Len(output) = 1 /\ output[1].pos = 1
    /\ logs.written

-----------------------------------------------------------------------------
(* C28 *)

\* Between two records: the tables are built and no record is in work.
BetweenRecords == pc \in {"read", "finish"} \/ (pc = "done" /\ rc = 0)

\* The written records ApplyLocusFilters reported filtered, when filtered
\* records are retained: their FILTER is not PASS.
WrittenFiltered == Cardinality({k \in 1..Len(output) : output[k].FILTER # "PASS"})

\* C28: after any number of processed records, PASS plus the number of
\* records ApplyLocusFilters reported filtered is the number of records
\* processed, and so is written plus dropped; NO_CALLS_REMAINING and every
\* locus filter's counter are at most processed - PASS; and when filtered
\* records are dropped, PASS records are written, each with a called sample.
C28_LocusCountersAddUp ==
    /\ [](BetweenRecords =>
            /\ Len(output) <= record_counter
            /\ loc_info.val["PASS"] <= record_counter
            /\ loc_info.val["NO_CALLS_REMAINING"] <= record_counter - loc_info.val["PASS"]
            /\ \A i \in 1..Len(locus_filters) :
                 loc_info.val[locus_filters[i].name]
                     <= record_counter - loc_info.val["PASS"]
            /\ IF args.drop_filtered
               THEN /\ Len(output) = loc_info.val["PASS"]
                    /\ \A k \in 1..Len(output) : NumCalled(output[k]) > 0
               ELSE /\ Len(output) = record_counter
                    /\ loc_info.val["PASS"] + WrittenFiltered = record_counter)
    /\ [][ /\ pc = "locus" =>
                IF locus_filtered'
                THEN loc_info'.val["PASS"] = loc_info.val["PASS"]
                ELSE loc_info'.val["PASS"] = loc_info.val["PASS"] + 1
           /\ pc = "emit" =>
                Len(output') = Len(output) + (IF Dropped THEN 0 ELSE 1)
         ]_vars

\* Two records processed with filtered records dropped: one passed and was
\* written, the other had no call left and was dropped.
C28_Witness ==
    /\ pc = "finish"
    /\ args.drop_filtered
    /\ record_counter = 2
    /\ loc_info.val["PASS"] = 1
    /\ loc_info.val["NO_CALLS_REMAINING"] = 1
    /\ Len(output) = 1 /\ NumCalled(output[1]) > 0

-----------------------------------------------------------------------------
(* C29 *)

RECURSIVE SumOver(_, _)
SumOver(f, S) ==
    IF S = {} THEN 0
    ELSE LET x == CHOOSE y \in S : TRUE IN f[x] + SumOver(f, S \ {x})

\* The PASS samples of the record in work: what it added to numcalls.
PassSamples == SumOver(sample_info.val["numcalls"], Samples)
               - SumOver(hist.si["numcalls"], Samples)

\* C29: the numcalls of all samples together are at least totalcalls; a
\* record that passes the locus filters adds its PASS samples, which are
\* its called samples after masking, to both, and a record that is
\* locus-filtered adds its PASS samples to numcalls and nothing to
\* totalcalls.
C29_NumcallsCoverTotalcalls ==
    /\ TablesBuilt =>
         SumOver(sample_info.val["numcalls"], Samples) >= loc_info.val["totalcalls"]
    /\ LocusReturned =>
         /\ LocInfoDelta("totalcalls") = IF locus_filtered THEN 0 ELSE PassSamples
         /\ ~locus_filtered => PassSamples = NumCalled(hist.cf_rec)

-----------------------------------------------------------------------------
(* C30 *)

\* ApplyCallFilters left by the raise of lines 634-640: a PASS sample of the
\* record has a negative depth that is not the missing sentinel.
NegativeDepthRaised ==
    /\ pc = "crashed"
    /\ DepthField(hist.entry).found
    /\ \E s \in Samples :
         /\ IsPass(s)
         /\ DepthOnEntry(s) < 0 /\ DepthOnEntry(s) # _NOCALL_INT_FORMAT_VAL

\* C30: when ApplyCallFilters is left by the negative-depth error, the
\* call filters' counters and numcalls hold the record's increments and the
\* record has its FILTER annotation, while totaldp is as before the record,
\* no genotype and no field is masked, no locus counter has moved and the
\* record is not written.
C30_PartialUpdateOnNegativeDepth ==
    NegativeDepthRaised =>
        /\ \A k \in Names(call_filters) : \A s \in Samples :
             sample_info.val[k][s] - hist.si[k][s]
             = Cardinality({i \in 1..Len(call_filters) :
                              /\ call_filters[i].name = k
                              /\ CalledOnEntry(s) /\ Fired(i, s)})
        /\ \A s \in Samples : NumcallsDelta(s) = IF IsPass(s) THEN 1 ELSE 0
        /\ "FILTER" \in DOMAIN record.format
        /\ sample_info.val["totaldp"] = hist.si["totaldp"]
        /\ WithoutFilterField(record) = WithoutFilterField(hist.entry)
        /\ loc_info = NewLocInfo(locus_filters)
        /\ output = <<>>
        /\ ~logs.written

\* One sample passed with depth -1, the call filter fired on the other one,
\* which was called: its counter and the first one's numcalls have risen,
\* and it still has its genotype.
C30_Witness ==
    /\ NegativeDepthRaised
    /\ Len(call_filters) = 1
    /\ \E s, t \in Samples :
         /\ IsPass(s) /\ DepthOnEntry(s) = -1
         /\ sample_info.val["numcalls"][s] = 1
         /\ CalledOnEntry(t) /\ Fired(1, t) /\ IsFiltered(record, t)
         /\ sample_info.val[call_filters[1].name][t] = 1
         /\ record.gt[t] = Het
         /\ sample_info.val["totaldp"][s] = F(0)

=============================================================================
